---- MODULE Spec2Model ----
(***************************************************************************)
(* ProtocolLens: the OAuth2 / OIDC protocol plugins and the mock identity  *)
(* provider they drive (backend/internal/protocols, backend/internal/      *)
(* mockidp), together with the PKCE utilities.                             *)
(*                                                                         *)
(* Strings whose characters matter (PKCE verifiers and challenges) are     *)
(* sequences of one-character strings; all other strings are TLA+ strings. *)
(***************************************************************************)
EXTENDS Integers, Sequences, FiniteSets, TLC

(***************************************************************************)
(* crypto/sha256 and encoding/base64 as used by validatePKCE.              *)
(* A 32-bit word is a pair <<hi, lo>> of 16-bit halves.                    *)
(***************************************************************************)

Pow2(n) == 2 ^ n

\* The one element of a singleton set.  Only({e(x) : x \in {v}}) is e(v) with
\* v computed once, however often e uses it.
Only(S) == CHOOSE x \in S : TRUE

\* Bit i (from 0, the least significant) of a.
Bit(a, i) == (a \div Pow2(i)) % 2

XorBit(p, q, r) == (p + q + r) % 2

ChBit(p, q, r) == IF p = 1 THEN q ELSE r

MajBit(p, q, r) == (p + q + r) \div 2

\* The bit that the bitwise operation op gives for the bits p, q and r.
BitOp(op, p, q, r) ==
    IF op = "xor" THEN XorBit(p, q, r)
    ELSE IF op = "ch" THEN ChBit(p, q, r)
    ELSE MajBit(p, q, r)

\* The 16-bit value whose bit i is op of the bits i of a, b and c.
Bitwise16(op, a, b, c) ==
    1 * BitOp(op, Bit(a, 0), Bit(b, 0), Bit(c, 0)) +
    2 * BitOp(op, Bit(a, 1), Bit(b, 1), Bit(c, 1)) +
    4 * BitOp(op, Bit(a, 2), Bit(b, 2), Bit(c, 2)) +
    8 * BitOp(op, Bit(a, 3), Bit(b, 3), Bit(c, 3)) +
    16 * BitOp(op, Bit(a, 4), Bit(b, 4), Bit(c, 4)) +
    32 * BitOp(op, Bit(a, 5), Bit(b, 5), Bit(c, 5)) +
    64 * BitOp(op, Bit(a, 6), Bit(b, 6), Bit(c, 6)) +
    128 * BitOp(op, Bit(a, 7), Bit(b, 7), Bit(c, 7)) +
    256 * BitOp(op, Bit(a, 8), Bit(b, 8), Bit(c, 8)) +
    512 * BitOp(op, Bit(a, 9), Bit(b, 9), Bit(c, 9)) +
    1024 * BitOp(op, Bit(a, 10), Bit(b, 10), Bit(c, 10)) +
    2048 * BitOp(op, Bit(a, 11), Bit(b, 11), Bit(c, 11)) +
    4096 * BitOp(op, Bit(a, 12), Bit(b, 12), Bit(c, 12)) +
    8192 * BitOp(op, Bit(a, 13), Bit(b, 13), Bit(c, 13)) +
    16384 * BitOp(op, Bit(a, 14), Bit(b, 14), Bit(c, 14)) +
    32768 * BitOp(op, Bit(a, 15), Bit(b, 15), Bit(c, 15))

\* x ^ y ^ z on words.
WXor3(x, y, z) ==
    Only({ << Bitwise16("xor", a[1], b[1], c[1]), Bitwise16("xor", a[2], b[2], c[2]) >> :
           <<a, b, c>> \in {<<x, y, z>>} })

WAdd(x, y) ==
    Only({ << (a[1] + b[1] + ((a[2] + b[2]) \div 65536)) % 65536,
              (a[2] + b[2]) % 65536 >> :
           <<a, b>> \in {<<x, y>>} })

\* Rotate right by n, 0 < n < 32.
Rotr(x, n) ==
    Only({ IF k = 0 THEN << a, b >>
           ELSE << (a \div Pow2(k)) + (b % Pow2(k)) * Pow2(16 - k),
                   (b \div Pow2(k)) + (a % Pow2(k)) * Pow2(16 - k) >> :
           <<a, b, k>> \in {IF n >= 16 THEN << x[2], x[1], n - 16 >>
                            ELSE << x[1], x[2], n >>} })

\* Logical shift right by n, 0 < n < 16.
Shr(x, n) ==
    Only({ << a[1] \div Pow2(n),
              (a[2] \div Pow2(n)) + (a[1] % Pow2(n)) * Pow2(16 - n) >> :
           a \in {x} })

BigSigma0(x) == Only({ WXor3(Rotr(a, 2), Rotr(a, 13), Rotr(a, 22)) : a \in {x} })

BigSigma1(x) == Only({ WXor3(Rotr(a, 6), Rotr(a, 11), Rotr(a, 25)) : a \in {x} })

SmallSigma0(x) == Only({ WXor3(Rotr(a, 7), Rotr(a, 18), Shr(a, 3)) : a \in {x} })

SmallSigma1(x) == Only({ WXor3(Rotr(a, 17), Rotr(a, 19), Shr(a, 10)) : a \in {x} })

\* (x & y) ^ (~x & z): each bit of x chooses between the bits of y and z.
Ch(x, y, z) ==
    Only({ << Bitwise16("ch", a[1], b[1], c[1]), Bitwise16("ch", a[2], b[2], c[2]) >> :
           <<a, b, c>> \in {<<x, y, z>>} })

\* (x & y) ^ (x & z) ^ (y & z): each bit is the majority of the three.
Maj(x, y, z) ==
    Only({ << Bitwise16("maj", a[1], b[1], c[1]), Bitwise16("maj", a[2], b[2], c[2]) >> :
           <<a, b, c>> \in {<<x, y, z>>} })

\* The SHA-256 round constants, as <<hi, lo>> halves.
ShaK ==
    << <<17034, 12184>>, <<28983, 17553>>, <<46528, 64463>>, <<59829, 56229>>,
       <<14678, 49755>>, <<23025, 4593>>, <<37439, 33444>>, <<43804, 24277>>,
       <<55303, 43672>>, <<4739, 23297>>, <<9265, 34238>>, <<21772, 32195>>,
       <<29374, 23924>>, <<32990, 45566>>, <<39900, 1703>>, <<49563, 61812>>,
       <<58523, 27073>>, <<61374, 18310>>, <<4033, 40390>>, <<9228, 41420>>,
       <<11753, 11375>>, <<19060, 33962>>, <<23728, 43484>>, <<30457, 35034>>,
       <<38974, 20818>>, <<43057, 50797>>, <<45059, 10184>>, <<48985, 32711>>,
       <<50912, 3059>>, <<54695, 37191>>, <<1738, 25425>>, <<5161, 10599>>,
       <<10167, 2693>>, <<11803, 8504>>, <<19756, 28156>>, <<21304, 3347>>,
       <<25866, 29524>>, <<30314, 2747>>, <<33218, 51502>>, <<37490, 11397>>,
       <<41663, 59553>>, <<43034, 26187>>, <<49739, 35696>>, <<51052, 20899>>,
       <<53650, 59417>>, <<54937, 1572>>, <<62478, 13701>>, <<4202, 41072>>,
       <<6564, 49430>>, <<7735, 27656>>, <<10056, 30540>>, <<13488, 48309>>,
       <<14620, 3251>>, <<20184, 43594>>, <<23452, 51791>>, <<26670, 28659>>,
       <<29839, 33518>>, <<30885, 25455>>, <<33992, 30740>>, <<36039, 520>>,
       <<37054, 65530>>, <<42064, 27883>>, <<48889, 41975>>, <<50801, 30962>> >>

\* The SHA-256 initial hash value.
ShaH0 ==
    << <<27145, 58983>>, <<47975, 44677>>, <<15470, 62322>>, <<42319, 62778>>,
       <<20750, 21119>>, <<39685, 26764>>, <<8067, 55723>>, <<23520, 52505>> >>

\* The next word of a message schedule W.
ShaScheduleWord(W) ==
    WAdd(WAdd(SmallSigma1(W[Len(W) - 1]), W[Len(W) - 6]),
         WAdd(SmallSigma0(W[Len(W) - 14]), W[Len(W) - 15]))

\* The message schedule W extended by n more words.
RECURSIVE ShaExtend(_, _)
ShaExtend(W, n) ==
    IF n = 0 THEN W
    ELSE IF n = 1 THEN Only({ Append(W, w) : w \in {ShaScheduleWord(W)} })
    ELSE Only({ ShaExtend(W2, n - (n \div 2)) : W2 \in {ShaExtend(W, n \div 2)} })

\* The message schedule of one 16-word block, extended to 64 words.
ShaSchedule(block) == ShaExtend(block, 48)

\* One round of the compression function on working variables s = <<a..h>>.
ShaRound(s, w, k) ==
    Only({ << WAdd(T1, T2), s[1], s[2], s[3], WAdd(s[4], T1), s[5], s[6], s[7] >> :
           <<T1, T2>> \in
               {<< WAdd(WAdd(WAdd(s[8], BigSigma1(s[5])),
                             WAdd(Ch(s[5], s[6], s[7]), k)), w),
                   WAdd(BigSigma0(s[1]), Maj(s[1], s[2], s[3])) >>} })

\* The working variables s after rounds lo..hi on the schedule W.
RECURSIVE ShaRounds(_, _, _, _)
ShaRounds(s, W, lo, hi) ==
    IF lo = hi THEN ShaRound(s, W[lo], ShaK[lo])
    ELSE Only({ ShaRounds(s2, W, ((lo + hi) \div 2) + 1, hi) :
                s2 \in {ShaRounds(s, W, lo, (lo + hi) \div 2)} })

ShaCompress(H, block) ==
    Only({ << WAdd(H[1], s[1]), WAdd(H[2], s[2]), WAdd(H[3], s[3]),
              WAdd(H[4], s[4]), WAdd(H[5], s[5]), WAdd(H[6], s[6]),
              WAdd(H[7], s[7]), WAdd(H[8], s[8]) >> :
           s \in {Only({ ShaRounds(H, W, 1, 64) : W \in {ShaSchedule(block)} })} })

\* n zero bytes.
Zeros(n) == [i \in 1..n |-> 0]

\* The padded message: 0x80, zeros up to 56 mod 64, the bit length on 8 bytes.
ShaPad(bytes) ==
    Only({ bytes \o <<128>> \o Zeros((119 - (L % 64)) % 64) \o
           << 0, 0, 0, 0, ((8 * L) \div 16777216) % 256, ((8 * L) \div 65536) % 256,
              ((8 * L) \div 256) % 256, (8 * L) % 256 >> :
           L \in {Len(bytes)} })

\* Block k (from 0) of the padded bytes, as 16 big-endian words.
ShaBlock(p, k) ==
    [i \in 1..16 |->
        Only({ << p[o + 1] * 256 + p[o + 2], p[o + 3] * 256 + p[o + 4] >> :
               o \in {64 * k + 4 * (i - 1)} })]

RECURSIVE ShaBlocks(_, _, _)
ShaBlocks(H, p, k) ==
    IF 64 * k >= Len(p) THEN H
    ELSE Only({ ShaBlocks(H2, p, k + 1) :
                H2 \in {Only({ ShaCompress(H, b) : b \in {ShaBlock(p, k)} })} })

\* sha256.Sum256: the 32 digest bytes of a byte sequence.
Sum256(bytes) ==
    Only({ [i \in 1..32 |->
               IF (i - 1) % 2 = 0
               THEN H[((i - 1) \div 4) + 1][IF ((i - 1) % 4) < 2 THEN 1 ELSE 2] \div 256
               ELSE H[((i - 1) \div 4) + 1][IF ((i - 1) % 4) < 2 THEN 1 ELSE 2] % 256] :
           H \in {Only({ ShaBlocks(ShaH0, p, 0) : p \in {ShaPad(bytes)} })} })

\* The URL-safe base64 alphabet (RFC 4648, section 5).
B64Alphabet ==
    << "A", "B", "C", "D", "E", "F", "G", "H", "I", "J", "K", "L", "M",
       "N", "O", "P", "Q", "R", "S", "T", "U", "V", "W", "X", "Y", "Z",
       "a", "b", "c", "d", "e", "f", "g", "h", "i", "j", "k", "l", "m",
       "n", "o", "p", "q", "r", "s", "t", "u", "v", "w", "x", "y", "z",
       "0", "1", "2", "3", "4", "5", "6", "7", "8", "9", "-", "_" >>

\* One of the four base64 characters of a three-byte group b1 b2 b3.
Sextet(q, b1, b2, b3) ==
    IF q = 0 THEN b1 \div 4
    ELSE IF q = 1 THEN (b1 % 4) * 16 + (b2 \div 16)
    ELSE IF q = 2 THEN (b2 % 16) * 4 + (b3 \div 64)
    ELSE b3 % 64

\* base64.RawURLEncoding.EncodeToString: no padding; a final group of one or
\* two bytes gives two or three characters.
RawURLEncode(bytes) ==
    Only({ [j \in 1..(4 * (n \div 3) + (IF n % 3 = 0 THEN 0 ELSE (n % 3) + 1)) |->
               B64Alphabet[Sextet((j - 1) % 4,
                   IF 3 * ((j - 1) \div 4) + 1 <= n
                       THEN bytes[3 * ((j - 1) \div 4) + 1] ELSE 0,
                   IF 3 * ((j - 1) \div 4) + 2 <= n
                       THEN bytes[3 * ((j - 1) \div 4) + 2] ELSE 0,
                   IF 3 * ((j - 1) \div 4) + 3 <= n
                       THEN bytes[3 * ((j - 1) \div 4) + 3] ELSE 0) + 1]] :
           n \in {Len(bytes)} })

\* The byte of a character ([]byte(verifier)): the unreserved characters of
\* RFC 7636, section 4.1.
ByteOf(c) ==
    IF c = "." THEN 46
    ELSE IF c = "~" THEN 126
    ELSE LET i == CHOOSE k \in 1..64 : B64Alphabet[k] = c
         IN  IF i <= 26 THEN 64 + i
             ELSE IF i <= 52 THEN 70 + i
             ELSE IF i <= 62 THEN i - 5
             ELSE IF i = 63 THEN 45
             ELSE 95

BytesOf(s) == [i \in 1..Len(s) |-> ByteOf(s[i])]

\* base64url(SHA-256(verifier)), the S256 transformation of validatePKCE and
\* GeneratePKCE.
ComputeS256(verifier) ==
    Only({ Only({ RawURLEncode(hash) : hash \in {Sum256(bytes)} }) :
           bytes \in {BytesOf(verifier)} })

(***************************************************************************)
(* PKCE inputs of the model.                                               *)
(***************************************************************************)

\* The code verifier of RFC 7636, appendix B (43 characters).
Verifier1 ==
    << "d", "B", "j", "f", "t", "J", "e", "Z", "4", "C", "V", "P", "-", "m",
       "B", "9", "2", "K", "2", "7", "u", "h", "b", "U", "J", "U", "1", "p",
       "1", "r", "_", "w", "W", "1", "g", "F", "W", "F", "O", "E", "j", "X",
       "k" >>

\* Verifier1 with its last character changed.
Verifier2 == [Verifier1 EXCEPT ![43] = "l"]

\* Verifier1 with its first character changed.
Verifier3 == [Verifier1 EXCEPT ![1] = "D"]

\* A verifier as long as those GeneratePKCE makes (64 characters, two blocks).
Verifier4 == Verifier1 \o SubSeq(Verifier1, 1, 21)

NoVerifier == << >>

Verifiers == {Verifier1, Verifier2, Verifier3, Verifier4, NoVerifier}

\* The S256 transformations of the verifiers of the model, each computed once.
S256Verifier1 == ComputeS256(Verifier1)

S256Verifier2 == ComputeS256(Verifier2)

S256Verifier3 == ComputeS256(Verifier3)

S256Verifier4 == ComputeS256(Verifier4)

\* base64.RawURLEncoding.EncodeToString(sha256.Sum256([]byte(verifier))).
CodeChallengeS256(verifier) ==
    IF verifier = Verifier1 THEN S256Verifier1
    ELSE IF verifier = Verifier2 THEN S256Verifier2
    ELSE IF verifier = Verifier3 THEN S256Verifier3
    ELSE IF verifier = Verifier4 THEN S256Verifier4
    ELSE ComputeS256(verifier)

\* A mutant of validatePKCE: the S256 branch compares the verifier itself.
validatePKCE_NoHash(verifier, challenge, method) ==
    IF verifier = << >> THEN FALSE
    ELSE IF method = "plain" THEN verifier = challenge
    ELSE verifier = challenge \/ CodeChallengeS256(verifier) = challenge

\* A validatePKCE whose default case compares directly, as plain does.
validatePKCE_DefaultPlain(verifier, challenge, method) ==
    IF verifier = << >> THEN FALSE
    ELSE IF method = "S256" THEN CodeChallengeS256(verifier) = challenge
    ELSE verifier = challenge

\* validatePKCE validates the code verifier against the code challenge.
validatePKCE(verifier, challenge, method) ==
    IF verifier = << >> THEN FALSE
    ELSE IF method = "S256" THEN CodeChallengeS256(verifier) = challenge
    ELSE IF method = "plain" THEN verifier = challenge
    ELSE CodeChallengeS256(verifier) = challenge

\* GeneratePKCE: the challenge that goes with a verifier.
GeneratePKCE(verifier) == CodeChallengeS256(verifier)

(***************************************************************************)
(* Bounds of the model.                                                    *)
(***************************************************************************)

\* Authorization codes created in one behaviour.
MaxCodes == 1

\* Refresh tokens stored in one behaviour.
MaxTokens == 2

\* Advances of the clock in one behaviour.
MaxAdvances == 1

(***************************************************************************)
(* Lifetimes, in minutes.                                                  *)
(***************************************************************************)

\* Lifetime of an authorization code ("a short expiry (minutes)").
CodeTTL == 10

\* Lifetime of an access token and of an ID token: time.Hour.
AccessTTL == 60

\* Lifetime of a refresh token: 7*24*time.Hour.
RefreshTTL == 10080

(***************************************************************************)
(* The identity store: registered clients and demo users.                  *)
(***************************************************************************)

AppCallback == "https://app.example/callback"

EvilCallback == "https://evil.example/callback"

\* A redirect URI with an invalid percent-escape.
MalformedCallback == "%zz"

\* url.Parse(uri) returns an error: of the URIs submitted here only the one
\* with the invalid escape; the empty string parses.
urlParseFails(uri) == uri = MalformedCallback

Clients ==
    [id \in {"demo-app", "public-app", "machine-client"} |->
        IF id = "demo-app" THEN
            [ID |-> id, Secret |-> "demo-secret", Public |-> FALSE,
             RedirectURIs |-> {AppCallback},
             GrantTypes |-> {"authorization_code", "refresh_token"}]
        ELSE IF id = "public-app" THEN
            [ID |-> id, Secret |-> "", Public |-> TRUE,
             RedirectURIs |-> {AppCallback},
             GrantTypes |-> {"authorization_code", "refresh_token"}]
        ELSE
            [ID |-> id, Secret |-> "machine-secret", Public |-> FALSE,
             RedirectURIs |-> {},
             GrantTypes |-> {"client_credentials"}]]

Users ==
    [email \in {"alice@example.com", "bob@example.com", "admin@example.com"} |->
        IF email = "alice@example.com" THEN [ID |-> "alice", Password |-> "password123"]
        ELSE IF email = "bob@example.com" THEN [ID |-> "bob", Password |-> "password123"]
        ELSE [ID |-> "admin", Password |-> "admin123"]]

\* MockIdP.GetClient: whether the client is registered.
ClientExists(clientID) == clientID \in DOMAIN Clients

\* MockIdP.ValidateClient: the client is registered and, unless it is public,
\* the secret is its secret.
ValidateClient(clientID, clientSecret) ==
    /\ ClientExists(clientID)
    /\ Clients[clientID].Public \/ Clients[clientID].Secret = clientSecret

\* MockIdP.ValidateRedirectURI: exact match against the client's registered set.
ValidateRedirectURI(clientID, uri) ==
    /\ ClientExists(clientID)
    /\ uri \in Clients[clientID].RedirectURIs

\* MockIdP.ValidateCredentials: exact match of email and password.
ValidateCredentials(email, password) ==
    /\ email \in DOMAIN Users
    /\ Users[email].Password = password

(***************************************************************************)
(* State.                                                                  *)
(***************************************************************************)

VARIABLES
    authCodes,      \* MockIdP's authorization codes; code n is authCodes[n]
    refreshTokens,  \* MockIdP's stored refresh tokens, in order of storage
    now,            \* the wall clock, in minutes
    advances,       \* how often the clock has advanced
    wk,             \* per request worker: the request in flight or last served
    pk,             \* the PKCE check under test: inputs and results
    states,         \* LifecycleManager.states: plugin id to state
    errors,         \* LifecycleManager.errors: plugin id to error
    mp,             \* per managed plugin: its hooks and the call in flight
    log,            \* per plugin: what was observed of its lifecycle
    hc,             \* the GetHealthChecks call in flight or last returned
    uc,             \* the UserClaims call under test: inputs and result
    bus,            \* the event bus: retained events and subscribers
    fe,             \* the browser: sessionStorage and the Callback page
    cc              \* calls made on one ManagedPlugin at the same time

vars == << authCodes, refreshTokens, now, advances, wk, pk,
           states, errors, mp, log, hc, uc, bus, fe, cc >>

lifecycle == << states, errors, mp, log, hc >>

idp == << authCodes, refreshTokens, now, advances, wk, pk >>

others == << uc, bus, fe, cc >>

\* The goroutines serving requests.
Workers == {1, 2}

(***************************************************************************)
(* Tokens made by the signing service (JWTService).                        *)
(***************************************************************************)

NoToken == [typ |-> "none"]

\* A string that is no token the signing service made.
GarbageToken == [typ |-> "garbage"]

\* JWTService.CreateAccessToken(subject, audience, scope, ttl, claims).
CreateAccessToken(t, sub, aud, scope) ==
    [typ |-> "access", sub |-> sub, aud |-> aud, scope |-> scope,
     exp |-> t + AccessTTL, jti |-> 0]

\* JWTService.CreateRefreshToken(subject, audience, scope, ttl); jti makes the
\* token unique.
CreateRefreshToken(t, sub, aud, scope, jti) ==
    [typ |-> "refresh", sub |-> sub, aud |-> aud, scope |-> scope,
     exp |-> t + RefreshTTL, jti |-> jti]

\* JWTService.CreateIDToken(subject, audience, nonce, authTime, ttl, claims).
CreateIDToken(t, sub, aud, nonce) ==
    [typ |-> "id", sub |-> sub, aud |-> aud, nonce |-> nonce,
     exp |-> t + AccessTTL, jti |-> 0]

\* JWTService.ValidateToken: the signature is the service's and the token has
\* not expired. The service holds no state: it knows nothing of revocation.
ValidateToken(t, token) ==
    /\ token.typ \in {"access", "refresh", "id"}
    /\ t <= token.exp

(***************************************************************************)
(* Mock IdP core: authorization codes and refresh tokens.                  *)
(***************************************************************************)

\* MockIdP.CreateAuthorizationCode: the store with a fresh, unconsumed code.
CreateAuthorizationCode(codes, t, clientID, userID, redirectURI, scope, state, nonce, codeChallenge, codeChallengeMethod) ==
    Append(codes,
        [Code |-> Len(codes) + 1, ClientID |-> clientID, UserID |-> userID,
         RedirectURI |-> redirectURI, Scope |-> scope, State |-> state,
         Nonce |-> nonce, CodeChallenge |-> codeChallenge,
         CodeChallengeMethod |-> codeChallengeMethod,
         ExpiresAt |-> t + CodeTTL, Used |-> FALSE])

\* Why MockIdP.ValidateAuthorizationCode refuses, "" when it accepts.
AuthorizationCodeError(codes, t, code, clientID, redirectURI, codeVerifier) ==
    IF code \notin 1..Len(codes) THEN "invalid authorization code"
    ELSE IF codes[code].Used THEN "authorization code already used"
    ELSE IF t > codes[code].ExpiresAt THEN "authorization code expired"
    ELSE IF codes[code].ClientID # clientID THEN "client_id mismatch"
    ELSE IF codes[code].RedirectURI # redirectURI THEN "redirect_uri mismatch"
    ELSE IF /\ codes[code].CodeChallenge # << >>
            /\ ~validatePKCE(codeVerifier, codes[code].CodeChallenge,
                             codes[code].CodeChallengeMethod)
         THEN "invalid code_verifier"
    ELSE ""

\* MockIdP.ValidateAuthorizationCode, one critical section: the verdict and
\* the store, in which an accepted code is marked consumed.
ValidateAuthorizationCode(codes, t, code, clientID, redirectURI, codeVerifier) ==
    Only({ [err |-> err,
            codes |-> IF err = "" THEN [codes EXCEPT ![code].Used = TRUE]
                      ELSE codes] :
           err \in {AuthorizationCodeError(codes, t, code, clientID, redirectURI,
                                           codeVerifier)} })

\* The stored entries of a refresh token (at most one: tokens are unique).
StoredAs(tokens, token) == {i \in 1..Len(tokens) : tokens[i].Token = token}

\* MockIdP.StoreRefreshToken.
StoreRefreshToken(tokens, token, clientID, userID, scope, expiresAt) ==
    Append(tokens,
        [Token |-> token, ClientID |-> clientID, UserID |-> userID,
         Scope |-> scope, ExpiresAt |-> expiresAt, Revoked |-> FALSE])

\* Why MockIdP.ValidateRefreshToken refuses, "" when it accepts.
RefreshTokenError(tokens, t, token, clientID) ==
    IF StoredAs(tokens, token) = {} THEN "invalid refresh token"
    ELSE LET rt == tokens[CHOOSE i \in StoredAs(tokens, token) : TRUE]
         IN  IF rt.Revoked THEN "refresh token revoked"
             ELSE IF rt.ClientID # clientID THEN "client_id mismatch"
             ELSE IF t > rt.ExpiresAt THEN "refresh token expired"
             ELSE ""

\* MockIdP.RevokeRefreshToken: marks the token revoked; unknown tokens are
\* ignored.
RevokeRefreshToken(tokens, token) ==
    [i \in 1..Len(tokens) |->
        IF tokens[i].Token = token THEN [tokens[i] EXCEPT !.Revoked = TRUE]
        ELSE tokens[i]]

(***************************************************************************)
(* Responses.                                                              *)
(***************************************************************************)

\* writeOAuth2Error (always status 400) and writeOIDCError (always state
\* ""): the JSON object {error, error_description} with its status, and
\* with the state when it is not empty.
ErrorResponse(status, error, description, state) ==
    IF state # "" THEN
        [status |-> status, error |-> error, description |-> description,
         state |-> state]
    ELSE
        [status |-> status, error |-> error, description |-> description]

\* The handler panicked (net/http recovers and closes the connection):
\* no response was written.
NoResponse == [status |-> 0, error |-> "", panic |-> TRUE]

\* The login page, rendered again with an error after a failed login.
LoginPage == [status |-> 200, error |-> "", page |-> "login"]

\* http.Redirect(w, r, redirect_uri?code=...&state=..., http.StatusFound).
Redirect(uri, code, state) ==
    [status |-> 302, error |-> "", location |-> uri, code |-> code, state |-> state]

\* models.TokenResponse, written with status 200.
TokenResponse(access, refresh, id, scope) ==
    [status |-> 200, error |-> "", accessToken |-> access,
     refreshToken |-> refresh, idToken |-> id, scope |-> scope]

\* The OIDC plugin answers invalid_client with 401 and server_error with 500;
\* writeOAuth2Error always writes 400.
InvalidClientStatus(plugin) == IF plugin = "oidc" THEN 401 ELSE 400

ServerErrorStatus(plugin) == IF plugin = "oidc" THEN 500 ELSE 400

\* The invalid_client answer of the token endpoint.
InvalidClient(plugin, clientID) ==
    ErrorResponse(InvalidClientStatus(plugin), "invalid_client",
                  IF ClientExists(clientID) THEN "Client authentication failed"
                  ELSE "Unknown client", "")

(***************************************************************************)
(* Scopes: a scope string is the sequence of its space-separated elements. *)
(***************************************************************************)

\* strings.Split(scope, " "): the empty string splits into one empty element.
SplitScope(scope) == IF scope = << >> THEN << "" >> ELSE scope

\* The loop that looks for "openid" among the split scopes.
HasOpenID(scopes) == \E i \in 1..Len(scopes) : scopes[i] = "openid"

(***************************************************************************)
(* Authorization endpoint, POST: the login form submission.                *)
(***************************************************************************)

\* A GET authorize that looks at the client before the response type.
HandleAuthorize_ClientFirst(req) ==
    IF req.clientID = "" THEN
        ErrorResponse(400, "invalid_request", "client_id is required", "")
    ELSE IF ~ClientExists(req.clientID) THEN
        ErrorResponse(400, "invalid_client", "Unknown client", "")
    ELSE IF req.responseType # "code" THEN
        ErrorResponse(400, "unsupported_response_type",
                      "Only 'code' response type is supported", "")
    ELSE IF ~ValidateRedirectURI(req.clientID, req.redirectURI) THEN
        ErrorResponse(400, "invalid_request", "Invalid redirect_uri", "")
    ELSE LoginPage

\* oauth2 handleAuthorize (GET): the checks in order, then the login page.
HandleAuthorize(req) ==
    IF req.responseType # "code" THEN
        ErrorResponse(400, "unsupported_response_type",
                      "Only 'code' response type is supported", "")
    ELSE IF req.clientID = "" THEN
        ErrorResponse(400, "invalid_request", "client_id is required", "")
    ELSE IF ~ClientExists(req.clientID) THEN
        ErrorResponse(400, "invalid_client", "Unknown client", "")
    ELSE IF ~ValidateRedirectURI(req.clientID, req.redirectURI) THEN
        ErrorResponse(400, "invalid_request", "Invalid redirect_uri", "")
    ELSE LoginPage

\* Whether MockIdP.CreateAuthorizationCode returns an error is the IdP's:
\* the handlers only branch on it.
CreateErrors == BOOLEAN

\* oauth2 handleAuthorizeSubmit: credentials, then the code; the redirect is
\* built on url.Parse(redirectURI), whose error is discarded, so that a URI
\* it rejects makes redirectURL.Query() dereference nil after the code was
\* stored.
OAuth2AuthorizeSubmit(codes, t, req, createErr) ==
    IF ~ValidateCredentials(req.email, req.password) THEN
        [codes |-> codes, resp |-> LoginPage]
    ELSE IF createErr THEN
        [codes |-> codes,
         resp |-> ErrorResponse(400, "server_error",
                                "Failed to create authorization code", req.state)]
    ELSE
        LET created == CreateAuthorizationCode(codes, t, req.clientID,
                           Users[req.email].ID, req.redirectURI, req.scope,
                           req.state, req.nonce, req.codeChallenge,
                           req.codeChallengeMethod)
        IN  [codes |-> created,
             resp |-> IF urlParseFails(req.redirectURI) THEN NoResponse
                      ELSE Redirect(req.redirectURI, Len(created), req.state)]

\* A mutant of the OIDC submission: the redirect URI check is left out.
OIDCAuthorizeSubmit_NoRedirectCheck(codes, t, req, createErr) ==
    OAuth2AuthorizeSubmit(codes, t, req, createErr)

\* oidc handleAuthorizeSubmit: the redirect URI is validated first, then the
\* credentials; then the code is created and the redirect built.
OIDCAuthorizeSubmit(codes, t, req, createErr) ==
    IF ~ValidateRedirectURI(req.clientID, req.redirectURI) THEN
        [codes |-> codes, resp |-> ErrorResponse(400, "invalid_request", "Invalid redirect_uri", "")]
    ELSE IF ~ValidateCredentials(req.email, req.password) THEN
        [codes |-> codes, resp |-> LoginPage]
    ELSE IF createErr THEN
        [codes |-> codes,
         resp |-> ErrorResponse(500, "server_error",
                                "Failed to create authorization code", "")]
    ELSE
        LET created == CreateAuthorizationCode(codes, t, req.clientID,
                           Users[req.email].ID, req.redirectURI, req.scope,
                           req.state, req.nonce, req.codeChallenge,
                           req.codeChallengeMethod)
        IN  [codes |-> created,
             resp |-> IF urlParseFails(req.redirectURI) THEN
                          ErrorResponse(400, "invalid_request",
                                        "Malformed redirect_uri", "")
                      ELSE Redirect(req.redirectURI, Len(created), req.state)]

(***************************************************************************)
(* Token endpoint: client authentication.                                  *)
(***************************************************************************)

\* The token endpoint takes client_id and client_secret from the form and,
\* when the form's client_id is empty, from the Authorization header.
TokenClientID(req) == IF req.clientID = "" THEN req.basicID ELSE req.clientID

TokenClientSecret(req) ==
    IF req.clientID = "" THEN req.basicSecret ELSE req.clientSecret

\* A mutant of the client check: the secret is never validated.
ClientAuthFails_NoSecretCheck(clientID, clientSecret) ==
    ~ClientExists(clientID)

\* GetClient, then ValidateClient unless the client is public.
ClientAuthFails(clientID, clientSecret) ==
    IF ~ClientExists(clientID) THEN TRUE
    ELSE IF ~Clients[clientID].Public THEN ~ValidateClient(clientID, clientSecret)
    ELSE FALSE

(***************************************************************************)
(* Token endpoint: the grants up to the validation of the grant.           *)
(* Each operator gives the IdP store afterwards and either the response    *)
(* (pc "done") or the validated grant to issue tokens for (pc "issue").    *)
(***************************************************************************)

\* A mutant of the code grant: the consumption of the code is not kept.
AuthorizationCodeGrant_NotConsumed(plugin, codes, t, req) ==
    IF ClientAuthFails(TokenClientID(req), TokenClientSecret(req)) THEN
        [codes |-> codes, pc |-> "done",
         resp |-> InvalidClient(plugin, TokenClientID(req))]
    ELSE
        LET v == ValidateAuthorizationCode(codes, t, req.code, TokenClientID(req),
                                           req.redirectURI, req.codeVerifier)
        IN  IF v.err # "" THEN
                [codes |-> codes, pc |-> "done",
                 resp |-> ErrorResponse(400, "invalid_grant", v.err, "")]
            ELSE
                [codes |-> codes, pc |-> "issue", grant |-> v.codes[req.code]]

\* A mutant of the code grant: the code's own client_id and redirect_uri are
\* passed to the validation instead of the request's.
AuthorizationCodeGrant_OwnBinding(plugin, codes, t, req) ==
    IF ClientAuthFails(TokenClientID(req), TokenClientSecret(req)) THEN
        [codes |-> codes, pc |-> "done",
         resp |-> InvalidClient(plugin, TokenClientID(req))]
    ELSE
        LET known == req.code \in 1..Len(codes)
            v == ValidateAuthorizationCode(codes, t, req.code,
                     IF known THEN codes[req.code].ClientID ELSE TokenClientID(req),
                     IF known THEN codes[req.code].RedirectURI ELSE req.redirectURI,
                     req.codeVerifier)
        IN  IF v.err # "" THEN
                [codes |-> v.codes, pc |-> "done",
                 resp |-> ErrorResponse(400, "invalid_grant", v.err, "")]
            ELSE
                [codes |-> v.codes, pc |-> "issue", grant |-> v.codes[req.code]]

\* A mutant of the code grant: the code is validated, and consumed, before
\* the client is authenticated.
AuthorizationCodeGrant_ValidateFirst(plugin, codes, t, req) ==
    Only({ IF ClientAuthFails(TokenClientID(req), TokenClientSecret(req)) THEN
               [codes |-> v.codes, pc |-> "done",
                resp |-> InvalidClient(plugin, TokenClientID(req))]
           ELSE IF v.err # "" THEN
               [codes |-> v.codes, pc |-> "done",
                resp |-> ErrorResponse(400, "invalid_grant", v.err, "")]
           ELSE
               [codes |-> v.codes, pc |-> "issue", grant |-> v.codes[req.code]] :
           v \in {ValidateAuthorizationCode(codes, t, req.code,
                      TokenClientID(req), req.redirectURI, req.codeVerifier)} })

\* handleAuthorizationCodeGrant (oauth2 and oidc) up to the validated code.
AuthorizationCodeGrant(plugin, codes, t, req) ==
    IF ClientAuthFails(TokenClientID(req), TokenClientSecret(req)) THEN
        [codes |-> codes, pc |-> "done",
         resp |-> InvalidClient(plugin, TokenClientID(req))]
    ELSE
        Only({ IF v.err # "" THEN
                   [codes |-> v.codes, pc |-> "done",
                    resp |-> ErrorResponse(400, "invalid_grant", v.err, "")]
               ELSE
                   [codes |-> v.codes, pc |-> "issue", grant |-> v.codes[req.code]] :
               v \in {ValidateAuthorizationCode(codes, t, req.code,
                          TokenClientID(req), req.redirectURI, req.codeVerifier)} })

\* The stored entry of a refresh token that is stored.
StoredToken(tokens, token) == tokens[CHOOSE i \in StoredAs(tokens, token) : TRUE]

\* A mutant of the refresh grant: the token is validated against the client it
\* is stored for, not against the requesting client.
RefreshTokenGrant_AnyClient(plugin, tokens, t, req) ==
    IF ClientAuthFails(TokenClientID(req), TokenClientSecret(req)) THEN
        [pc |-> "done", resp |-> InvalidClient(plugin, TokenClientID(req))]
    ELSE
        LET cid == IF StoredAs(tokens, req.refreshToken) = {} THEN TokenClientID(req)
                   ELSE StoredToken(tokens, req.refreshToken).ClientID
            err == RefreshTokenError(tokens, t, req.refreshToken, cid)
        IN  IF err # "" THEN
                [pc |-> "done", resp |-> ErrorResponse(400, "invalid_grant", err, "")]
            ELSE
                [pc |-> "issue", grant |-> StoredToken(tokens, req.refreshToken),
                 scope |-> IF req.scope = << >>
                           THEN StoredToken(tokens, req.refreshToken).Scope
                           ELSE req.scope]

\* handleRefreshTokenGrant (oauth2 and oidc) up to the validated refresh token
\* and the scope to issue.
RefreshTokenGrant(plugin, tokens, t, req) ==
    IF ClientAuthFails(TokenClientID(req), TokenClientSecret(req)) THEN
        [pc |-> "done", resp |-> InvalidClient(plugin, TokenClientID(req))]
    ELSE
        LET err == RefreshTokenError(tokens, t, req.refreshToken, TokenClientID(req))
        IN  IF err # "" THEN
                [pc |-> "done", resp |-> ErrorResponse(400, "invalid_grant", err, "")]
            ELSE
                [pc |-> "issue", grant |-> StoredToken(tokens, req.refreshToken),
                 scope |-> IF req.scope = << >>
                           THEN StoredToken(tokens, req.refreshToken).Scope
                           ELSE req.scope]

(***************************************************************************)
(* Token issuance. fail names the token whose signing fails in this call   *)
(* ("none": the signing service signs every token).                        *)
(***************************************************************************)

SignFailures == {"none", "access", "refresh", "id"}

\* oauth2 issueTokens: access token, refresh token, the refresh token stored.
IssueTokens(tokens, t, userID, clientID, scope, nonce, fail) ==
    IF fail = "access" \/ fail = "refresh" THEN
        [tokens |-> tokens, err |-> TRUE]
    ELSE
        LET access == CreateAccessToken(t, userID, clientID, scope)
            refresh == CreateRefreshToken(t, userID, clientID, scope, Len(tokens) + 1)
        IN  [tokens |-> StoreRefreshToken(tokens, refresh, clientID, userID,
                                          scope, t + RefreshTTL),
             err |-> FALSE,
             resp |-> TokenResponse(access, refresh, NoToken, scope)]

\* oidc issueOIDCTokens: as issueTokens, then the ID token when the scope has
\* openid; a failure there is returned after the refresh token was stored.
IssueOIDCTokens(tokens, t, authCode, fail) ==
    IF fail = "access" \/ fail = "refresh" THEN
        [tokens |-> tokens, err |-> TRUE]
    ELSE
        LET access == CreateAccessToken(t, authCode.UserID, authCode.ClientID,
                                        authCode.Scope)
            refresh == CreateRefreshToken(t, authCode.UserID, authCode.ClientID,
                                          authCode.Scope, Len(tokens) + 1)
            stored == StoreRefreshToken(tokens, refresh, authCode.ClientID,
                          authCode.UserID, authCode.Scope, t + RefreshTTL)
        IN  IF HasOpenID(SplitScope(authCode.Scope)) THEN
                IF fail = "id" THEN [tokens |-> stored, err |-> TRUE]
                ELSE [tokens |-> stored, err |-> FALSE,
                      resp |-> TokenResponse(access, refresh,
                                   CreateIDToken(t, authCode.UserID,
                                       authCode.ClientID, authCode.Nonce),
                                   authCode.Scope)]
            ELSE [tokens |-> stored, err |-> FALSE,
                  resp |-> TokenResponse(access, refresh, NoToken, authCode.Scope)]

\* handleAuthorizationCodeGrant from the validated code on: the store and the
\* response.
AuthorizationCodeIssue(plugin, tokens, t, req, authCode, fail) ==
    LET r == IF plugin = "oidc" THEN IssueOIDCTokens(tokens, t, authCode, fail)
             ELSE IssueTokens(tokens, t, authCode.UserID, TokenClientID(req),
                              authCode.Scope, authCode.Nonce, fail)
    IN  [tokens |-> r.tokens,
         resp |-> IF r.err
                  THEN ErrorResponse(ServerErrorStatus(plugin), "server_error",
                                     "Failed to issue tokens", "")
                  ELSE r.resp]

\* handleRefreshTokenGrant from the validated refresh token on. oauth2 calls
\* issueTokens with an empty nonce; oidc creates the tokens itself, adds an ID
\* token (no nonce) when the scope has openid, and answers without an ID token
\* when signing it fails.
RefreshTokenIssue(plugin, tokens, t, req, rt, scope, fail) ==
    IF plugin = "oidc" THEN
        IF fail = "access" \/ fail = "refresh" THEN
            [tokens |-> tokens,
             resp |-> ErrorResponse(500, "server_error",
                          IF fail = "access" THEN "Failed to create access token"
                          ELSE "Failed to create refresh token", "")]
        ELSE
            LET access == CreateAccessToken(t, rt.UserID, TokenClientID(req), scope)
                refresh == CreateRefreshToken(t, rt.UserID, TokenClientID(req),
                                              scope, Len(tokens) + 1)
            IN  [tokens |-> StoreRefreshToken(tokens, refresh, TokenClientID(req),
                                rt.UserID, scope, t + RefreshTTL),
                 resp |-> TokenResponse(access, refresh,
                              IF HasOpenID(SplitScope(scope)) /\ fail # "id"
                              THEN CreateIDToken(t, rt.UserID, TokenClientID(req), "")
                              ELSE NoToken,
                              scope)]
    ELSE
        LET r == IssueTokens(tokens, t, rt.UserID, TokenClientID(req), scope, "", fail)
        IN  [tokens |-> r.tokens,
             resp |-> IF r.err
                      THEN ErrorResponse(400, "server_error", "Failed to issue tokens", "")
                      ELSE r.resp]

\* A mutant of the client_credentials grant: it issues as the other grants
\* do, with a refresh token that is stored.
HandleClientCredentials_WithRefresh(tokens, t, req, fail) ==
    IF ~ValidateClient(TokenClientID(req), TokenClientSecret(req)) THEN
        [tokens |-> tokens,
         resp |-> ErrorResponse(400, "invalid_client", "Client authentication failed", "")]
    ELSE
        LET r == IssueTokens(tokens, t, TokenClientID(req), TokenClientID(req),
                             req.scope, "", fail)
        IN  [tokens |-> r.tokens,
             resp |-> IF r.err
                      THEN ErrorResponse(400, "server_error",
                                         "Failed to create access token", "")
                      ELSE r.resp]

\* oauth2 handleClientCredentialsGrant: the client is validated and must be
\* registered for the grant; one access token whose subject and audience are
\* the client; no call to the refresh-token store.
HandleClientCredentials(tokens, t, req, fail) ==
    IF ~ValidateClient(TokenClientID(req), TokenClientSecret(req)) THEN
        [tokens |-> tokens,
         resp |-> ErrorResponse(400, "invalid_client", "Client authentication failed", "")]
    ELSE IF "client_credentials" \notin Clients[TokenClientID(req)].GrantTypes THEN
        [tokens |-> tokens,
         resp |-> ErrorResponse(400, "unauthorized_client",
                                "Client not authorized for this grant type", "")]
    ELSE IF fail = "access" THEN
        [tokens |-> tokens,
         resp |-> ErrorResponse(400, "server_error", "Failed to create access token", "")]
    ELSE
        [tokens |-> tokens,
         resp |-> TokenResponse(CreateAccessToken(t, TokenClientID(req),
                                    TokenClientID(req), req.scope),
                                NoToken, NoToken, req.scope)]

(***************************************************************************)
(* Introspection and revocation endpoints (oauth2).                        *)
(***************************************************************************)

\* These two endpoints take the client credentials from the Authorization
\* header and, when it names no client, from the form.
HeaderClientID(req) == IF req.basicID = "" THEN req.clientID ELSE req.basicID

HeaderClientSecret(req) ==
    IF req.basicID = "" THEN req.clientSecret ELSE req.basicSecret

\* handleIntrospect: the client is validated, then the token by the signing
\* service alone.
HandleIntrospect(t, req) ==
    IF ~ValidateClient(HeaderClientID(req), HeaderClientSecret(req)) THEN
        ErrorResponse(400, "invalid_client", "Client authentication required", "")
    ELSE IF ~ValidateToken(t, req.token) THEN
        [status |-> 200, error |-> "", active |-> FALSE]
    ELSE
        [status |-> 200, error |-> "", active |-> TRUE, tokenType |-> "Bearer",
         scope |-> IF "scope" \in DOMAIN req.token THEN req.token.scope ELSE << >>,
         sub |-> req.token.sub, clientID |-> req.token.aud,
         exp |-> req.token.exp, jti |-> req.token.jti]

\* A mutant of handleRevoke: a request without token_type_hint revokes nothing.
HandleRevoke_HintRequired(tokens, req) ==
    IF ClientAuthFails(HeaderClientID(req), HeaderClientSecret(req)) THEN
        [tokens |-> tokens, resp |-> InvalidClient("oauth2", HeaderClientID(req))]
    ELSE
        [tokens |-> IF req.tokenTypeHint = "refresh_token"
                    THEN RevokeRefreshToken(tokens, req.token)
                    ELSE tokens,
         resp |-> [status |-> 200, error |-> ""]]

\* A mutant of handleRevoke: a token that is not stored, or is revoked
\* already, is answered invalid_request.
HandleRevoke_KnownOnly(tokens, req) ==
    IF ClientAuthFails(HeaderClientID(req), HeaderClientSecret(req)) THEN
        [tokens |-> tokens, resp |-> InvalidClient("oauth2", HeaderClientID(req))]
    ELSE IF StoredAs(tokens, req.token) = {}
            \/ tokens[CHOOSE i \in StoredAs(tokens, req.token) : TRUE].Revoked THEN
        [tokens |-> tokens,
         resp |-> ErrorResponse(400, "invalid_request", "Unknown token", "")]
    ELSE
        [tokens |-> IF req.tokenTypeHint = "refresh_token" \/ req.tokenTypeHint = ""
                    THEN RevokeRefreshToken(tokens, req.token)
                    ELSE tokens,
         resp |-> [status |-> 200, error |-> ""]]

\* handleRevoke: the client is authenticated; the token is revoked when the
\* hint is refresh_token or absent; the answer is 200 either way.
HandleRevoke(tokens, req) ==
    IF ClientAuthFails(HeaderClientID(req), HeaderClientSecret(req)) THEN
        [tokens |-> tokens, resp |-> InvalidClient("oauth2", HeaderClientID(req))]
    ELSE
        [tokens |-> IF req.tokenTypeHint = "refresh_token" \/ req.tokenTypeHint = ""
                    THEN RevokeRefreshToken(tokens, req.token)
                    ELSE tokens,
         resp |-> [status |-> 200, error |-> ""]]

(***************************************************************************)
(* Requests. A request is drawn from a small set of form submissions.      *)
(***************************************************************************)

\* How a client presents itself: form fields, or the Authorization header
\* when the form names no client.
Form(clientID, clientSecret) ==
    [clientID |-> clientID, clientSecret |-> clientSecret,
     basicID |-> "", basicSecret |-> ""]

Basic(clientID, clientSecret) ==
    [clientID |-> "", clientSecret |-> "",
     basicID |-> clientID, basicSecret |-> clientSecret]

Presentations ==
    { Form("demo-app", "demo-secret"), Form("demo-app", "wrong-secret"),
      Form("demo-app", ""), Form("public-app", ""),
      Form("public-app", "wrong-secret"), Form("ghost-app", ""),
      Basic("demo-app", "demo-secret"), Basic("demo-app", "wrong-secret") }

\* The presentations that name a registered client with its own credentials.
ValidPresentations == { Form("demo-app", "demo-secret"), Form("public-app", "") }

Plugins == {"oauth2", "oidc"}

\* The challenge of Verifier1 as a client sends it (RFC 7636, appendix B).
Challenge1 ==
    << "E", "9", "M", "e", "l", "h", "o", "a", "2", "O", "w", "v", "F", "r",
       "E", "M", "T", "J", "g", "u", "C", "H", "a", "o", "e", "K", "1", "t",
       "8", "U", "R", "W", "b", "u", "G", "J", "S", "s", "t", "w", "-", "c",
       "M" >>

\* The login form submissions.
AuthorizeRequest(email, password, clientID, redirectURI, scope, challenge, method) ==
    [email |-> email, password |-> password, clientID |-> clientID,
     redirectURI |-> redirectURI, scope |-> scope, state |-> "xyz",
     nonce |-> "n-1", codeChallenge |-> challenge,
     codeChallengeMethod |-> method]

\* Submissions with alice's password for a registered redirect URI, for an
\* unregistered one and for one that does not parse, with and without PKCE,
\* and submissions with a wrong password.
AuthorizeRequests ==
    { AuthorizeRequest("alice@example.com", "password123", cu[1], cu[2], sc[1], sc[2], sc[3]) :
        cu \in { << "demo-app", AppCallback >>, << "public-app", AppCallback >>,
                 << "demo-app", EvilCallback >>,
                 << "demo-app", MalformedCallback >> },
        sc \in { << << "openid", "profile" >>, << >>, "" >>,
                 << << "profile" >>, Challenge1, "S256" >> } }
    \cup
    { AuthorizeRequest("alice@example.com", "wrong", "demo-app", u, << "profile" >>, << >>, "") :
        u \in {AppCallback, EvilCallback} }

\* The token requests of the authorization_code grant.
CodeRequest(p, code, redirectURI, codeVerifier) ==
    [clientID |-> p.clientID, clientSecret |-> p.clientSecret,
     basicID |-> p.basicID, basicSecret |-> p.basicSecret,
     code |-> code, redirectURI |-> redirectURI, codeVerifier |-> codeVerifier]

\* Redemptions by a client that authenticates, with every combination of
\* redirect URI and verifier; one of a code never issued; one by a client
\* that does not authenticate.
CodeRequests ==
    { CodeRequest(p, 1, u, v) :
        p \in { Form("demo-app", "demo-secret"), Form("public-app", "") },
        u \in {AppCallback, EvilCallback},
        v \in {Verifier1, Verifier2, NoVerifier} }
    \cup
    { CodeRequest(Form("demo-app", "demo-secret"), MaxCodes + 1, AppCallback, NoVerifier),
      CodeRequest(Form("demo-app", "wrong-secret"), 1, AppCallback, Verifier1) }

\* The token requests of the refresh_token grant.
RefreshRequest(p, token, scope) ==
    [clientID |-> p.clientID, clientSecret |-> p.clientSecret,
     basicID |-> p.basicID, basicSecret |-> p.basicSecret,
     refreshToken |-> token, scope |-> scope]

\* The requests of the introspection and revocation endpoints.
TokenRequest(p, token, hint) ==
    [clientID |-> p.clientID, clientSecret |-> p.clientSecret,
     basicID |-> p.basicID, basicSecret |-> p.basicSecret,
     token |-> token, tokenTypeHint |-> hint]

Hints == {"", "refresh_token", "access_token"}

(***************************************************************************)
(* Actions. A worker serves one request at a time. The token grants take   *)
(* two steps, as the handler leaves the IdP's critical section between the  *)
(* validation of the grant and the storing of the new refresh token; the   *)
(* other handlers touch the store at most once.                            *)
(***************************************************************************)

Free(w) == wk[w].pc # "issue"

Served(op, plugin, req, resp, at) ==
    [pc |-> "done", op |-> op, plugin |-> plugin, req |-> req, resp |-> resp,
     at |-> at]

\* POST authorize of either plugin; CreateAuthorizationCode, when the
\* handler comes to call it, succeeds or returns an error.
AuthorizeSubmit(w, plugin, req) ==
    /\ Free(w)
    /\ Len(authCodes) < MaxCodes
    /\ \E createErr \in CreateErrors :
         LET r == IF plugin = "oidc"
                  THEN OIDCAuthorizeSubmit(authCodes, now, req, createErr)
                  ELSE OAuth2AuthorizeSubmit(authCodes, now, req, createErr)
         IN  /\ authCodes' = r.codes
             /\ wk' = [wk EXCEPT ![w] = Served("authorize", plugin, req, r.resp, now)]
    /\ UNCHANGED << refreshTokens, now, advances, pk, lifecycle, others >>

\* POST token, grant_type=authorization_code: client authentication and
\* ValidateAuthorizationCode.
TokenAuthorizationCode(w, plugin, req) ==
    /\ Free(w)
    /\ \E r \in {AuthorizationCodeGrant(plugin, authCodes, now, req)} :
           /\ authCodes' = r.codes
           /\ wk' = [wk EXCEPT ![w] =
                  IF r.pc = "issue"
                  THEN [pc |-> "issue", op |-> "authorization_code",
                        plugin |-> plugin, req |-> req, grant |-> r.grant,
                        scope |-> r.grant.Scope, at |-> now]
                  ELSE Served("authorization_code", plugin, req, r.resp, now)]
    /\ UNCHANGED << refreshTokens, now, advances, pk, lifecycle, others >>

\* POST token, grant_type=refresh_token: client authentication and
\* ValidateRefreshToken.
TokenRefresh(w, plugin, req) ==
    /\ Free(w)
    /\ LET r == RefreshTokenGrant(plugin, refreshTokens, now, req)
       IN  wk' = [wk EXCEPT ![w] =
                  IF r.pc = "issue"
                  THEN [pc |-> "issue", op |-> "refresh_token",
                        plugin |-> plugin, req |-> req, grant |-> r.grant,
                        scope |-> r.scope, at |-> now]
                  ELSE Served("refresh_token", plugin, req, r.resp, now)]
    /\ UNCHANGED << authCodes, refreshTokens, now, advances, pk, lifecycle, others >>

\* The rest of a token request: the tokens are signed, the refresh token is
\* stored, the response is written.
\* GET authorize at the oauth2 plugin.
Authorize(w, req) ==
    /\ Free(w)
    /\ wk' = [wk EXCEPT ![w] =
              Served("authorize_get", "oauth2", req, HandleAuthorize(req), now)]
    /\ UNCHANGED << authCodes, refreshTokens, now, advances, pk, lifecycle, others >>

IssueOutcome(w, fail) ==
    IF wk[w].op = "authorization_code"
    THEN AuthorizationCodeIssue(wk[w].plugin, refreshTokens, now,
                                wk[w].req, wk[w].grant, fail)
    ELSE RefreshTokenIssue(wk[w].plugin, refreshTokens, now,
                           wk[w].req, wk[w].grant, wk[w].scope, fail)

TokenIssue(w, fail) ==
    /\ wk[w].pc = "issue"
    /\ Len(refreshTokens) < MaxTokens
    /\ \E r \in {IssueOutcome(w, fail)} :
           /\ refreshTokens' = r.tokens
           /\ wk' = [wk EXCEPT ![w] =
                  Served(wk[w].op, wk[w].plugin, wk[w].req, r.resp, wk[w].at)]
    /\ UNCHANGED << authCodes, now, advances, pk, lifecycle, others >>

\* POST /oauth2/introspect.
Introspect(w, req) ==
    /\ Free(w)
    /\ wk' = [wk EXCEPT ![w] =
           Served("introspect", "oauth2", req, HandleIntrospect(now, req), now)]
    /\ UNCHANGED << authCodes, refreshTokens, now, advances, pk, lifecycle, others >>

\* POST /oauth2/token, grant_type=client_credentials.
TokenClientCredentials(w, req, fail) ==
    /\ Free(w)
    /\ \E r \in {HandleClientCredentials(refreshTokens, now, req, fail)} :
           /\ refreshTokens' = r.tokens
           /\ wk' = [wk EXCEPT ![w] =
                  Served("client_credentials", "oauth2", req, r.resp, now)]
    /\ UNCHANGED << authCodes, now, advances, pk, lifecycle, others >>

\* POST /oauth2/revoke.
Revoke(w, req) ==
    /\ Free(w)
    /\ LET r == HandleRevoke(refreshTokens, req)
       IN  /\ refreshTokens' = r.tokens
           /\ wk' = [wk EXCEPT ![w] = Served("revoke", "oauth2", req, r.resp, now)]
    /\ UNCHANGED << authCodes, now, advances, pk, lifecycle, others >>

\* Time passes.
Advance(d) ==
    /\ advances < MaxAdvances
    /\ now' = now + d
    /\ advances' = advances + 1
    /\ UNCHANGED << authCodes, refreshTokens, wk, pk, lifecycle, others >>

(***************************************************************************)
(* The plugin lifecycle: the LifecycleManager's two maps and the calls of  *)
(* ManagedPlugin.Initialize and ManagedPlugin.Shutdown.  A call takes the  *)
(* manager's lock once per SetState or SetError, so it is a sequence of    *)
(* steps, and calls on different plugins interleave.  One ManagedPlugin    *)
(* serves one call at a time.                                              *)
(***************************************************************************)

\* How many calls the managed plugins receive in all.
MaxCalls == 3

StateUninitialized == "uninitialized"
StateInitializing == "initializing"
StateReady == "ready"
StateShuttingDown == "shutting_down"
StateStopped == "stopped"
StateError == "error"

\* The plugin ids the manager is asked about.
PluginIDs == {"oauth2", "oidc"}

\* An error is the chain of its messages, outermost first; nil is empty.
NoError == << >>
HookError == << "hook failure" >>
PluginError == << "plugin failure" >>

\* fmt.Errorf(msg + ": %w", err)
Wrap(msg, err) == << msg >> \o err

\* errors.Is(err, cause): cause is err or something err wraps.
Is(err, cause) ==
    /\ cause # NoError
    /\ Len(cause) <= Len(err)
    /\ SubSeq(err, Len(err) - Len(cause) + 1, Len(err)) = cause

\* A SetState that leaves the recorded error in place.
SetState_KeepError(lm, pluginID, state) ==
    [states |-> [id \in DOMAIN lm.states \cup {pluginID} |->
                    IF id = pluginID THEN state ELSE lm.states[id]],
     errors |-> lm.errors]

\* The manager's maps as one value.
LM == [states |-> states, errors |-> errors]

SetState(lm, pluginID, state) ==
    [states |-> [id \in DOMAIN lm.states \cup {pluginID} |->
                    IF id = pluginID THEN state ELSE lm.states[id]],
     errors |-> IF state # StateError
                THEN [id \in DOMAIN lm.errors \ {pluginID} |-> lm.errors[id]]
                ELSE lm.errors]

SetError(lm, pluginID, err) ==
    [states |-> [id \in DOMAIN lm.states \cup {pluginID} |->
                    IF id = pluginID THEN StateError ELSE lm.states[id]],
     errors |-> [id \in DOMAIN lm.errors \cup {pluginID} |->
                    IF id = pluginID THEN err ELSE lm.errors[id]]]

GetState(lm, pluginID) ==
    IF pluginID \in DOMAIN lm.states THEN lm.states[pluginID]
    ELSE StateUninitialized

GetError(lm, pluginID) ==
    IF pluginID \in DOMAIN lm.errors THEN lm.errors[pluginID] ELSE NoError

IsReady(lm, pluginID) == GetState(lm, pluginID) = StateReady

AllReady(lm) == \A id \in DOMAIN lm.states : lm.states[id] = StateReady

\* The hooks a ManagedPlugin was given; a nil Hooks is the empty set.
AllHooks == {"OnInitialize", "OnReady", "OnShutdown", "OnError"}
NoHooks == { }
HookSets == { NoHooks, AllHooks, {"OnInitialize", "OnError"},
              {"OnReady", "OnShutdown"} }

\* What is observed of a plugin: the calls made on it, the hooks and plugin
\* methods the calls invoke with what they return, the states the manager
\* is given, and what the calls return.
Event(ev, st, err) == [ev |-> ev, st |-> st, err |-> err]
Called(op) == Event("call", op, NoError)
StateSet(state) == Event("state", state, NoError)
Invoked(fn, err) == Event(fn, "", err)
Returned(err) == Event("return", "", err)

\* One step of a call: the manager after it, where the call stands, what
\* it returned if it did, and what was observed.
StepResult(lm, pc, ret, events) ==
    [states |-> lm.states, errors |-> lm.errors, pc |-> pc, ret |-> ret,
     events |-> events]

\* Initialize, to the first SetState.
InitializeEnter(lm, id) ==
    StepResult(SetState(lm, id, StateInitializing), "pre-init", NoError,
               << Called("Initialize"), StateSet(StateInitializing) >>)

\* A pre-init hook whose error is dropped.
InitializePreInit_Swallow(lm, id, hooks, err) ==
    StepResult(lm, "init", NoError,
               IF "OnInitialize" \in hooks
               THEN << Invoked("OnInitialize", err) >> ELSE << >>)

\* A pre-init hook whose failure is also reported to the error hook.
InitializePreInit_OnError(lm, id, hooks, err) ==
    IF "OnInitialize" \in hooks
    THEN IF err # NoError
         THEN StepResult(SetError(lm, id, err), "idle",
                         Wrap("pre-init hook failed", err),
                         << Invoked("OnInitialize", err), StateSet(StateError) >>
                         \o (IF "OnError" \in hooks
                             THEN << Invoked("OnError", err) >> ELSE << >>)
                         \o << Returned(Wrap("pre-init hook failed", err)) >>)
         ELSE StepResult(lm, "init", NoError,
                         << Invoked("OnInitialize", NoError) >>)
    ELSE StepResult(lm, "init", NoError, << >>)

\* Initialize, the pre-init hook; err is what the hook returns.
InitializePreInit(lm, id, hooks, err) ==
    IF "OnInitialize" \in hooks
    THEN IF err # NoError
         THEN StepResult(SetError(lm, id, err), "idle",
                         Wrap("pre-init hook failed", err),
                         << Invoked("OnInitialize", err), StateSet(StateError),
                            Returned(Wrap("pre-init hook failed", err)) >>)
         ELSE StepResult(lm, "init", NoError,
                         << Invoked("OnInitialize", NoError) >>)
    ELSE StepResult(lm, "init", NoError, << >>)

\* An Initialize that runs the ready hook before it records Ready.
InitializePlugin_ReadyHookFirst(lm, id, hooks, err) ==
    IF err # NoError
    THEN StepResult(SetError(lm, id, err), "idle", err,
                    << Invoked("plugin.Initialize", err), StateSet(StateError),
                       Returned(err) >>)
    ELSE StepResult(SetState(lm, id, StateReady), "idle", NoError,
                    << Invoked("plugin.Initialize", NoError) >>
                    \o (IF "OnReady" \in hooks
                        THEN << Invoked("OnReady", NoError) >> ELSE << >>)
                    \o << StateSet(StateReady), Returned(NoError) >>)

\* Initialize, the plugin's own Initialize; err is what it returns.
InitializePlugin(lm, id, hooks, err) ==
    IF err # NoError
    THEN StepResult(SetError(lm, id, err), "idle", err,
                    << Invoked("plugin.Initialize", err), StateSet(StateError) >>
                    \o (IF "OnError" \in hooks
                        THEN << Invoked("OnError", err) >> ELSE << >>)
                    \o << Returned(err) >>)
    ELSE StepResult(SetState(lm, id, StateReady), "ready", NoError,
                    << Invoked("plugin.Initialize", NoError),
                       StateSet(StateReady) >>)

\* Initialize, the ready hook and the return.
InitializeReady(lm, id, hooks) ==
    StepResult(lm, "idle", NoError,
               (IF "OnReady" \in hooks
                THEN << Invoked("OnReady", NoError) >> ELSE << >>)
               \o << Returned(NoError) >>)

\* A Shutdown that does not announce itself to the manager.
ShutdownEnter_Silent(lm, id) ==
    StepResult(lm, "pre-shutdown", NoError, << Called("Shutdown") >>)

\* Shutdown, to the first SetState.
ShutdownEnter(lm, id) ==
    StepResult(SetState(lm, id, StateShuttingDown), "pre-shutdown", NoError,
               << Called("Shutdown"), StateSet(StateShuttingDown) >>)

\* A shutdown hook whose failure is recorded without returning.
ShutdownPreShutdown_NoReturn(lm, id, hooks, err) ==
    IF "OnShutdown" \in hooks
    THEN StepResult(IF err # NoError THEN SetError(lm, id, err) ELSE lm,
                    "shutdown", NoError,
                    << Invoked("OnShutdown", err) >>
                    \o (IF err # NoError
                        THEN << StateSet(StateError) >> ELSE << >>))
    ELSE StepResult(lm, "shutdown", NoError, << >>)

\* Shutdown, the shutdown hook; err is what the hook returns.
ShutdownPreShutdown(lm, id, hooks, err) ==
    IF "OnShutdown" \in hooks
    THEN IF err # NoError
         THEN StepResult(SetError(lm, id, err), "idle",
                         Wrap("shutdown hook failed", err),
                         << Invoked("OnShutdown", err), StateSet(StateError),
                            Returned(Wrap("shutdown hook failed", err)) >>)
         ELSE StepResult(lm, "shutdown", NoError,
                         << Invoked("OnShutdown", NoError) >>)
    ELSE StepResult(lm, "shutdown", NoError, << >>)

\* Shutdown, the plugin's own Shutdown and the return.
ShutdownPlugin(lm, id, err) ==
    IF err # NoError
    THEN StepResult(SetError(lm, id, err), "idle", err,
                    << Invoked("plugin.Shutdown", err), StateSet(StateError),
                       Returned(err) >>)
    ELSE StepResult(SetState(lm, id, StateStopped), "idle", NoError,
                    << Invoked("plugin.Shutdown", NoError),
                       StateSet(StateStopped), Returned(NoError) >>)

\* The calls made on a plugin so far, and on all plugins.
Calls(id) == Cardinality({i \in 1..Len(log[id]) : log[id][i].ev = "call"})
AllCalls == Calls("oauth2") + Calls("oidc")

\* A GetHealthChecks that does not take the manager's lock.
RLocked_Never(h) == FALSE

\* GetHealthChecks holds the manager's read lock.
RLocked(h) == h.pc = "reading"

\* The step calls SetState or SetError, which take the write lock.
Writes(r) == \E i \in 1..Len(r.events) : r.events[i].ev = "state"

\* A step of the call in flight on plugin id takes effect; a step that
\* writes waits while the read lock is held.  seen keeps the values the
\* manager had while GetHealthChecks was running.
Take(id, op, r) ==
    /\ Writes(r) => ~RLocked(hc)
    /\ states' = r.states
    /\ errors' = r.errors
    /\ mp' = [mp EXCEPT ![id].pc = r.pc, ![id].ret = r.ret, ![id].op = op]
    /\ log' = [log EXCEPT ![id] = @ \o r.events]
    /\ hc' = IF hc.pc = "reading"
             THEN [hc EXCEPT !.seen = @ \cup {[states |-> r.states,
                                                errors |-> r.errors]}]
             ELSE hc
    /\ UNCHANGED << idp, others >>

InitializeCall(id) ==
    /\ mp[id].pc = "idle"
    /\ AllCalls < MaxCalls
    /\ \E r \in {InitializeEnter(LM, id)} : Take(id, "Initialize", r)

InitializeHook(id, err) ==
    /\ mp[id].pc = "pre-init"
    /\ ("OnInitialize" \notin mp[id].hooks) => err = NoError
    /\ \E r \in {InitializePreInit(LM, id, mp[id].hooks, err)} :
           Take(id, "Initialize", r)

InitializeOwn(id, err) ==
    /\ mp[id].pc = "init"
    /\ \E r \in {InitializePlugin(LM, id, mp[id].hooks, err)} :
           Take(id, "Initialize", r)

InitializeDone(id) ==
    /\ mp[id].pc = "ready"
    /\ \E r \in {InitializeReady(LM, id, mp[id].hooks)} :
           Take(id, "Initialize", r)

ShutdownCall(id) ==
    /\ mp[id].pc = "idle"
    /\ AllCalls < MaxCalls
    /\ \E r \in {ShutdownEnter(LM, id)} : Take(id, "Shutdown", r)

ShutdownHook(id, err) ==
    /\ mp[id].pc = "pre-shutdown"
    /\ ("OnShutdown" \notin mp[id].hooks) => err = NoError
    /\ \E r \in {ShutdownPreShutdown(LM, id, mp[id].hooks, err)} :
           Take(id, "Shutdown", r)

ShutdownOwn(id, err) ==
    /\ mp[id].pc = "shutdown"
    /\ \E r \in {ShutdownPlugin(LM, id, err)} : Take(id, "Shutdown", r)

\* No UserClaims call under test, and no event bus in use.
NoUserClaims ==
    [user |-> "", scopes |-> << >>, done |-> FALSE, nil |-> FALSE,
     claims |-> << >>]

\* The event bus keeps the most recent Retention events; a subscriber's
\* stream buffers at most QueueSize undelivered events.
Retention == 2
QueueSize == 1
\* How many events are published in all.
MaxPublished == 4

Subscribers == {"s1", "s2"}
Stages == {"authorization_request", "token_exchange"}

FlowEvent(id, stage, outcome) == [id |-> id, stage |-> stage, outcome |-> outcome]

NoSubscription == [active |-> FALSE, queue |-> << >>]

NoBus == [events |-> << >>, history |-> << >>,
          subs |-> [s \in Subscribers |-> NoSubscription]]

\* The last n elements of a sequence, all of it when it is shorter.
LastN(seq, n) ==
    IF Len(seq) <= n THEN seq ELSE SubSeq(seq, Len(seq) - n + 1, Len(seq))

\* A retention that keeps the oldest events and drops the new one.
Retain_DropNewest(events) ==
    IF Len(events) <= Retention THEN events ELSE SubSeq(events, 1, Retention)

\* Bounded retention: the oldest events are evicted first.
Retain(events) == LastN(events, Retention)

\* Fan-out that does not block: a subscriber whose stream is full misses
\* the event, the others receive it.
FanOut(subs, event) ==
    [s \in Subscribers |->
        IF subs[s].active /\ Len(subs[s].queue) < QueueSize
        THEN [subs[s] EXCEPT !.queue = Append(@, event)]
        ELSE subs[s]]

\* Publish(stage, correlationID, outcome, payload, duration).
Publish(stage, outcome) ==
    /\ Len(bus.history) < MaxPublished
    /\ \E event \in {FlowEvent(Len(bus.history) + 1, stage, outcome)} :
           bus' = [events |-> Retain(Append(bus.events, event)),
                   history |-> Append(bus.history, event),
                   subs |-> FanOut(bus.subs, event)]
    /\ UNCHANGED << idp, lifecycle, uc, fe, cc >>

\* Subscribe(correlationID): a live stream that starts empty.
Subscribe(s) ==
    /\ ~bus.subs[s].active
    /\ bus' = [bus EXCEPT !.subs[s] = [active |-> TRUE, queue |-> << >>]]
    /\ UNCHANGED << idp, lifecycle, uc, fe, cc >>

\* A subscriber takes the next event off its stream.
Receive(s) ==
    /\ bus.subs[s].active
    /\ bus.subs[s].queue # << >>
    /\ bus' = [bus EXCEPT !.subs[s].queue = Tail(@)]
    /\ UNCHANGED << idp, lifecycle, uc, fe, cc >>

\* How many times GetHealthChecks is called.
MaxChecks == 1

\* The text of an error, err.Error(), as the list of its pieces: each
\* message of the chain, outermost first, with ": " between two; empty for
\* nil, which omitempty then leaves out.
RECURSIVE ErrorText(_)
ErrorText(err) ==
    IF Len(err) <= 1 THEN err
    ELSE << err[1], ": " >> \o ErrorText(Tail(err))

\* One entry of GetHealthChecks, read from the manager lm.
HealthCheck(lm, id) ==
    [PluginID |-> id,
     State |-> lm.states[id],
     Healthy |-> lm.states[id] = StateReady,
     Error |-> ErrorText(GetError(lm, id))]

NoHealthChecks ==
    [pc |-> "idle", calls |-> 0, todo |-> { }, checks |-> << >>, seen |-> { }]

\* GetHealthChecks takes the read lock and makes the empty list.
GetHealthChecksLock ==
    /\ hc.pc # "reading"
    /\ hc.calls < MaxChecks
    /\ hc' = [pc |-> "reading", calls |-> hc.calls + 1, todo |-> DOMAIN states,
              checks |-> << >>, seen |-> {LM}]
    /\ UNCHANGED << idp, others, states, errors, mp, log >>

\* GetHealthChecks, one round of the loop over lm.states, whose order the
\* map decides.
GetHealthChecksEntry(id) ==
    /\ hc.pc = "reading"
    /\ id \in hc.todo
    /\ hc' = [hc EXCEPT !.todo = @ \ {id},
                        !.checks = Append(@, HealthCheck(LM, id))]
    /\ UNCHANGED << idp, others, states, errors, mp, log >>

\* GetHealthChecks releases the lock and returns the list.
GetHealthChecksReturn ==
    /\ hc.pc = "reading"
    /\ hc.todo = { }
    /\ hc' = [hc EXCEPT !.pc = "done"]
    /\ UNCHANGED << idp, others, states, errors, mp, log >>

\* NewLifecycleManager, and one NewManagedPlugin for each plugin.
ManagedPlugin(hooks) ==
    [hooks |-> hooks, pc |-> "idle", op |-> "", ret |-> NoError,
     cancelled |-> FALSE]

\* ctx.Err() of a cancelled context.
ContextCanceled == << "context canceled" >>

\* The context the plugin's calls are given is cancelled, before the first
\* call or while Initialize has not yet recorded Ready.  No line of
\* ManagedPlugin reads the context: it is handed to the hooks and to the
\* plugin, which may return its error or ignore it.
Cancel(id) ==
    /\ ~mp[id].cancelled
    /\ \/ mp[id].pc = "idle" /\ log[id] = << >>
       \/ mp[id].pc \in {"pre-init", "init"}
    /\ mp' = [mp EXCEPT ![id].cancelled = TRUE]
    /\ UNCHANGED << idp, others, states, errors, log, hc >>

\* What a hook or the plugin, given the plugin's context, may return:
\* nil, its own failure, or the context's error once it is cancelled.
Outcomes(id, own) ==
    {NoError, own} \cup (IF mp[id].cancelled THEN {ContextCanceled} ELSE { })

(***************************************************************************)
(* Initialize and Shutdown called on one ManagedPlugin by goroutines that   *)
(* run together.  ManagedPlugin holds no lock of its own: each SetState     *)
(* and SetError is one critical section of the manager, and the plugin's   *)
(* own operation runs between them.  The plugin has no hooks.              *)
(***************************************************************************)

Goroutines == {1, 2}

\* The plugin the goroutines call.
SharedPlugin == "oauth2"

NoCall == [op |-> "", pc |-> "idle", err |-> NoError]

\* completed lists the plugin's own operations in the order they returned.
NoConcurrentCalls ==
    [call |-> [g \in Goroutines |-> NoCall], completed |-> << >>]

\* The state a call records first.
EnterState(op) ==
    IF op = "Initialize" THEN StateInitializing ELSE StateShuttingDown

\* The state a call records after the plugin's operation succeeded.
SuccessState(op) == IF op = "Initialize" THEN StateReady ELSE StateStopped

\* What a call records for the outcome err of the plugin's operation.
RecordOutcome(lm, op, err) ==
    IF err # NoError THEN SetError(lm, SharedPlugin, err)
    ELSE SetState(lm, SharedPlugin, SuccessState(op))

\* mp.Initialize or mp.Shutdown is called: mp.lm.SetState(id, ...).
ConcurrentEnter(g, op) ==
    /\ cc.call[g].pc = "idle"
    /\ \E lm \in {SetState(LM, SharedPlugin, EnterState(op))} :
           states' = lm.states /\ errors' = lm.errors
    /\ cc' = [cc EXCEPT !.call[g] = [op |-> op, pc |-> "plugin", err |-> NoError]]
    /\ UNCHANGED << idp, mp, log, hc, uc, bus, fe >>

\* mp.plugin.Initialize or mp.plugin.Shutdown returns err.
ConcurrentPlugin(g, err) ==
    /\ cc.call[g].pc = "plugin"
    /\ cc' = [cc EXCEPT
                !.call[g].pc = "record",
                !.call[g].err = err,
                !.completed = Append(@, [op |-> cc.call[g].op, err |-> err])]
    /\ UNCHANGED << idp, lifecycle, uc, bus, fe >>

\* The call records the outcome (SetError, or SetState Ready or Stopped)
\* and returns.
ConcurrentRecord(g) ==
    /\ cc.call[g].pc = "record"
    /\ \E lm \in {RecordOutcome(LM, cc.call[g].op, cc.call[g].err)} :
           states' = lm.states /\ errors' = lm.errors
    /\ cc' = [cc EXCEPT !.call[g].pc = "returned"]
    /\ UNCHANGED << idp, mp, log, hc, uc, bus, fe >>

(***************************************************************************)
(* The browser side: sessionStorage (format.ts oauthStorage) and the       *)
(* Callback page's effect (Callback.tsx).                                  *)
(***************************************************************************)

\* A value that may be null: getItem of an absent key, a missing URL
\* parameter.
Null == [has |-> FALSE, v |-> ""]
Some(v) == [has |-> TRUE, v |-> v]

\* JavaScript truthiness of a string or null: null and "" are falsy.
Truthy(x) == x.has /\ x.v # ""

\* a || b on strings.
OrElse(x, default) == IF Truthy(x) THEN x.v ELSE default

\* storedState === receivedState, the received one being a string.
StrictEquals(stored, received) == stored.has /\ stored.v = received

NoFetch == [pending |-> FALSE, endpoint |-> "", code |-> "",
            client_id |-> "", code_verifier |-> Null]

NoURL == [code |-> Null, error |-> Null, error_description |-> Null,
          state |-> Null]

NoFrontend ==
    [storage |-> [oauth_state |-> Null, pkce_verifier |-> Null,
                  oidc_nonce |-> Null, oauth_flow_type |-> Null],
     url |-> NoURL,
     page |-> [status |-> "none", error |-> "", tokens |-> FALSE],
     fetch |-> NoFetch,
     returned |-> Null,
     validated |-> [called |-> FALSE, received |-> "", result |-> FALSE],
     trues |-> 0]

\* The most validateState calls answered true that are counted.
MaxTrues == 2

\* A validateState that forgets the stored state only when it matched.
ValidateStateResult_KeepOnMismatch(storage, receivedState) ==
    [result |-> StrictEquals(storage.oauth_state, receivedState),
     storage |-> IF StrictEquals(storage.oauth_state, receivedState)
                 THEN [storage EXCEPT !.oauth_state = Null]
                 ELSE storage]

\* oauthStorage.validateState: getItem, removeItem, compare.
ValidateStateResult(storage, receivedState) ==
    [result |-> StrictEquals(storage.oauth_state, receivedState),
     storage |-> [storage EXCEPT !.oauth_state = Null]]

\* oauthStorage.storeState(state).
StoreState(state) ==
    /\ fe' = [fe EXCEPT !.storage.oauth_state = Some(state), !.trues = 0,
                        !.validated = NoFrontend.validated]
    /\ UNCHANGED << idp, lifecycle, uc, bus, cc >>

\* oauthStorage.storeVerifier(verifier).
StoreVerifier(verifier) ==
    /\ fe' = [fe EXCEPT !.storage.pkce_verifier = Some(verifier)]
    /\ UNCHANGED << idp, lifecycle, uc, bus, cc >>

\* oauthStorage.getVerifier(): getItem, removeItem, return what was read.
GetVerifier ==
    /\ fe' = [fe EXCEPT !.returned = fe.storage.pkce_verifier,
                        !.storage.pkce_verifier = Null]
    /\ UNCHANGED << idp, lifecycle, uc, bus, cc >>

\* oauthStorage.storeNonce(nonce).
StoreNonce(nonce) ==
    /\ fe' = [fe EXCEPT !.storage.oidc_nonce = Some(nonce)]
    /\ UNCHANGED << idp, lifecycle, uc, bus, cc >>

\* oauthStorage.getNonce(): getItem, removeItem, return what was read.
GetNonce ==
    /\ fe' = [fe EXCEPT !.returned = fe.storage.oidc_nonce,
                        !.storage.oidc_nonce = Null]
    /\ UNCHANGED << idp, lifecycle, uc, bus, cc >>

\* oauthStorage.storeFlowType(flowType).
StoreFlowType(flowType) ==
    /\ fe' = [fe EXCEPT !.storage.oauth_flow_type = Some(flowType)]
    /\ UNCHANGED << idp, lifecycle, uc, bus, cc >>

\* oauthStorage.clearAll().
ClearAll ==
    /\ fe' = [fe EXCEPT !.storage = NoFrontend.storage]
    /\ UNCHANGED << idp, lifecycle, uc, bus, cc >>

\* oauthStorage.validateState(receivedState) called by some page.
ValidateState(receivedState) ==
    /\ \E r \in {ValidateStateResult(fe.storage, receivedState)} :
           fe' = [fe EXCEPT
                    !.storage = r.storage,
                    !.validated = [called |-> TRUE, received |-> receivedState,
                                   result |-> r.result],
                    !.trues = IF r.result /\ @ < MaxTrues THEN @ + 1 ELSE @]
    /\ UNCHANGED << idp, lifecycle, uc, bus, cc >>

\* Callback useEffect up to the fetch: the page was just loaded with url.
CallbackEffect(f, url) ==
    IF Truthy(url.error) THEN
        [f EXCEPT !.url = url, !.fetch = NoFetch,
                  !.page = [status |-> "error",
                            error |-> OrElse(url.error_description, url.error.v),
                            tokens |-> FALSE]]
    ELSE IF ~Truthy(url.code) THEN
        [f EXCEPT !.url = url, !.fetch = NoFetch,
                  !.page = [status |-> "error",
                            error |-> "No authorization code received",
                            tokens |-> FALSE]]
    ELSE
        [f EXCEPT !.url = url,
                  !.page = [status |-> "loading", error |-> "", tokens |-> FALSE],
                  !.fetch = [pending |-> TRUE,
                             endpoint |-> IF OrElse(f.storage.oauth_flow_type, "oauth2") = "oidc"
                                          THEN "/oidc/token" ELSE "/oauth2/token",
                             code |-> url.code.v,
                             client_id |-> "public-app",
                             code_verifier |-> IF Truthy(f.storage.pkce_verifier)
                                               THEN f.storage.pkce_verifier
                                               ELSE Null]]

\* The browser lands on /callback with the given query string.
Callback(url) ==
    /\ fe' = CallbackEffect(fe, url)
    /\ UNCHANGED << idp, lifecycle, uc, bus, cc >>

\* How a fetch ends: the promise rejects with a message (a network error),
\* or it resolves with a response whose body is JSON or is not.
FetchRejected(message) ==
    [rejected |-> TRUE, ok |-> FALSE, json |-> FALSE, message |-> message,
     error |-> Null, error_description |-> Null]

FetchResponse(ok, error, error_description) ==
    [rejected |-> FALSE, ok |-> ok, json |-> TRUE, message |-> "",
     error |-> error, error_description |-> error_description]

\* A response whose body res.json() rejects with the given message.
FetchNotJSON(ok, message) ==
    [rejected |-> FALSE, ok |-> ok, json |-> FALSE, message |-> message,
     error |-> Null, error_description |-> Null]

\* The page after .catch: setError(err.message), setStatus('error').
ErrorPage(message) == [status |-> "error", error |-> message, tokens |-> FALSE]

\* The promise chain of the fetch: res.json(), the throw when !res.ok, the
\* success handler that clears the verifier and the flow type, and .catch.
FetchResolve(answer) ==
    /\ fe.fetch.pending
    /\ fe' = IF answer.rejected \/ ~answer.json THEN
                 [fe EXCEPT !.fetch.pending = FALSE,
                            !.page = ErrorPage(answer.message)]
             ELSE IF ~answer.ok THEN
                 [fe EXCEPT !.fetch.pending = FALSE,
                            !.page = ErrorPage(
                                OrElse(answer.error_description,
                                       OrElse(answer.error,
                                              "Token exchange failed")))]
             ELSE
                 [fe EXCEPT !.fetch.pending = FALSE,
                            !.page = [status |-> "success", error |-> "",
                                      tokens |-> TRUE],
                            !.storage.pkce_verifier = Null,
                            !.storage.oauth_flow_type = Null]
    /\ UNCHANGED << idp, lifecycle, uc, bus, cc >>

LifecycleOff ==
    /\ states = << >>
    /\ errors = << >>
    /\ mp = [id \in PluginIDs |-> ManagedPlugin(AllHooks)]
    /\ log = [id \in PluginIDs |-> << >>]
    /\ hc = NoHealthChecks
    /\ bus = NoBus
    /\ fe = NoFrontend
    /\ cc = NoConcurrentCalls

(***************************************************************************)
(* The server serving one request at a time, with every kind of request.   *)
(***************************************************************************)

PKCEOff == [verifier |-> NoVerifier, challenge |-> << >>, method |-> "",
            generated |-> FALSE, result |-> "off"]

Init ==
    /\ authCodes = << >>
    /\ refreshTokens = << >>
    /\ now = 0
    /\ advances = 0
    /\ wk = [w \in Workers |-> [pc |-> "idle"]]
    /\ pk = PKCEOff
    /\ LifecycleOff
    /\ uc = NoUserClaims

Next ==
    \/ \E p \in Plugins, req \in AuthorizeRequests : AuthorizeSubmit(1, p, req)
    \/ \E p \in Plugins, req \in CodeRequests : TokenAuthorizationCode(1, p, req)
    \/ \E fail \in SignFailures : TokenIssue(1, fail)
    \/ Advance(CodeTTL + 1)

Spec == Init /\ [][Next]_vars

(***************************************************************************)
(* The server serving one request at a time: a login by either client,     *)
(* then token requests with every presentation of a client.                *)
(***************************************************************************)

LoginRequests ==
    { AuthorizeRequest("alice@example.com", "password123", c, AppCallback,
                       << "openid", "profile" >>, << >>, "") :
        c \in {"demo-app", "public-app"} }

PresentedCodeRequests ==
    { CodeRequest(p, 1, AppCallback, NoVerifier) : p \in Presentations }

PresentedRefreshRequests(tokens) ==
    { RefreshRequest(p, tokens[i].Token, << >>) :
        p \in Presentations, i \in 1..Len(tokens) }

\* The requests of the client_credentials grant: the machine client with its
\* secret, with a wrong one, and in the Authorization header; clients that
\* are not registered for the grant; and a client that is not registered.
ClientCredentialsRequests ==
    { [clientID |-> p.clientID, clientSecret |-> p.clientSecret,
       basicID |-> p.basicID, basicSecret |-> p.basicSecret, scope |-> sc] :
        p \in { Form("machine-client", "machine-secret"),
                Form("machine-client", "wrong-secret"),
                Basic("machine-client", "machine-secret"),
                Form("demo-app", "demo-secret"), Form("public-app", ""),
                Form("ghost-app", "") },
        sc \in { << "api:read" >>, << >> } }

NextClients ==
    \/ \E req \in LoginRequests : AuthorizeSubmit(1, "oauth2", req)
    \/ \E p \in Plugins, req \in PresentedCodeRequests :
            TokenAuthorizationCode(1, p, req)
    \/ \E p \in Plugins, req \in PresentedRefreshRequests(refreshTokens) :
            TokenRefresh(1, p, req)
    \/ TokenIssue(1, "none")
    \/ \E req \in ClientCredentialsRequests, f \in {"none", "access"} :
            TokenClientCredentials(1, req, f)

SpecClients == Init /\ [][NextClients]_vars

(***************************************************************************)
(* The server serving one request at a time: a login by demo-app, then     *)
(* every kind of request about refresh tokens, while time passes.          *)
(***************************************************************************)

DemoLogin ==
    AuthorizeRequest("alice@example.com", "password123", "demo-app", AppCallback,
                     << "openid", "profile" >>, << >>, "")

DemoCodeRequest ==
    CodeRequest(Form("demo-app", "demo-secret"), 1, AppCallback, NoVerifier)

\* The token's client, the token's client with a wrong secret, and another
\* client.
Callers ==
    { Form("demo-app", "demo-secret"), Form("demo-app", "wrong-secret"),
      Form("public-app", "") }

\* The tokens a client may hold: every stored refresh token, and a string
\* that is no token.
KnownTokens(tokens) == { tokens[i].Token : i \in 1..Len(tokens) } \cup {GarbageToken}

RefreshRequests(tokens) ==
    { RefreshRequest(p, tok, << >>) : p \in Callers, tok \in KnownTokens(tokens) }

\* Revocations by the token's client with every hint, and by the other
\* callers without a hint.
RevokeRequests(tokens) ==
    { TokenRequest(Form("demo-app", "demo-secret"), tok, h) :
        tok \in KnownTokens(tokens), h \in Hints }
    \cup { TokenRequest(p, tokens[i].Token, "") : p \in Callers, i \in 1..Len(tokens) }

\* What the worker may send to the introspection endpoint: a known token, or
\* the access token of the response it has just received.
Introspectable(w) ==
    KnownTokens(refreshTokens) \cup
    (IF wk[w].pc = "done" /\ wk[w].resp.status = 200
        /\ "accessToken" \in DOMAIN wk[w].resp
     THEN {wk[w].resp.accessToken} ELSE {})

NextTokens ==
    \/ AuthorizeSubmit(1, "oidc", DemoLogin)
    \/ \E p \in Plugins : TokenAuthorizationCode(1, p, DemoCodeRequest)
    \/ \E p \in Plugins, req \in RefreshRequests(refreshTokens) : TokenRefresh(1, p, req)
    \/ TokenIssue(1, "none")
    \/ \E p \in Callers, tok \in Introspectable(1) :
            Introspect(1, TokenRequest(p, tok, ""))
    \/ \E req \in RevokeRequests(refreshTokens) : Revoke(1, req)
    \/ Advance(RefreshTTL + 1)

SpecTokens == Init /\ [][NextTokens]_vars

(***************************************************************************)
(* Scopes and nonces: logins at either plugin with and without openid in   *)
(* the scope, the code's redemption, refresh grants that keep or replace    *)
(* the scope, and a signing service that may fail on any one token.        *)
(***************************************************************************)

\* Scopes with openid as an element, without it, and with an element that
\* only contains it.
LoginScopes == { << "openid", "profile" >>, << "profile" >>, << "openidx" >> }

Nonces == {"n-1", "n-2"}

ScopedLogins ==
    { [AuthorizeRequest("alice@example.com", "password123", "demo-app",
                        AppCallback, sc, << >>, "") EXCEPT !.nonce = n] :
        sc \in LoginScopes, n \in Nonces }

\* Refresh requests of the token's client: with the stored scope (none
\* sent), and with a scope that adds or drops openid.
ScopedRefreshRequests(tokens) ==
    { RefreshRequest(Form("demo-app", "demo-secret"), tokens[i].Token, sc) :
        i \in 1..Len(tokens), sc \in { << >>, << "openid" >>, << "profile" >> } }

NextScopes ==
    \/ \E p \in Plugins, req \in ScopedLogins : AuthorizeSubmit(1, p, req)
    \/ \E p \in Plugins : TokenAuthorizationCode(1, p, DemoCodeRequest)
    \/ \E p \in Plugins, req \in ScopedRefreshRequests(refreshTokens) :
            TokenRefresh(1, p, req)
    \/ \E f \in SignFailures : TokenIssue(1, f)

SpecScopes == Init /\ [][NextScopes]_vars

(***************************************************************************)
(* Two requests in flight: a login, then each worker redeems the code at   *)
(* most once, at either plugin's token endpoint.                           *)
(***************************************************************************)

\* The worker has sent no token request yet.
Fresh(w) == wk[w].pc = "idle" \/ (wk[w].pc = "done" /\ wk[w].op = "authorize")

Redemptions ==
    { CodeRequest(p, c, AppCallback, NoVerifier) :
        p \in ValidPresentations, c \in 1..MaxCodes }

NextConc ==
    \/ \E w \in Workers, p \in Plugins, req \in LoginRequests : AuthorizeSubmit(w, p, req)
    \/ \E w \in Workers, p \in Plugins, req \in Redemptions :
            Fresh(w) /\ TokenAuthorizationCode(w, p, req)
    \/ \E w \in Workers : TokenIssue(w, "none")
    \/ Advance(CodeTTL + 1)

SpecConc == Init /\ [][NextConc]_vars

(***************************************************************************)
(* PKCE: a client holding a verifier and a challenge has the pair checked, *)
(* or logs in with the challenge and redeems the code with the verifier.   *)
(***************************************************************************)

\* The challenges of the other verifiers, as a client computed them.
Challenge2 ==
    << "P", "5", "u", "W", "m", "2", "W", "H", "u", "i", "Z", "k", "z", "w",
       "I", "-", "f", "J", "Y", "P", "3", "0", "Z", "h", "i", "m", "U", "R",
       "2", "k", "O", "T", "e", "k", "H", "r", "k", "t", "0", "P", "w", "o",
       "U" >>

Challenge3 ==
    << "X", "T", "X", "Z", "d", "m", "P", "C", "n", "E", "n", "L", "D", "x",
       "v", "Q", "H", "I", "u", "Q", "h", "i", "e", "3", "6", "w", "0", "D",
       "K", "_", "w", "Y", "0", "I", "z", "c", "k", "w", "r", "V", "w", "A",
       "g" >>

Challenge4 ==
    << "V", "G", "t", "W", "D", "H", "l", "N", "z", "y", "G", "f", "a", "T",
       "f", "A", "d", "d", "U", "Y", "4", "q", "S", "I", "X", "r", "_", "u",
       "c", "7", "a", "A", "m", "I", "1", "B", "1", "L", "x", "y", "8", "s",
       "M" >>

\* Challenge1 as an encoder that pads would write it.
PaddedChallenge1 == Append(Challenge1, "=")

Challenges ==
    { Challenge1, Challenge2, Challenge4, PaddedChallenge1, Verifier1, << >> }

Methods == {"S256", "plain", "", "s256"}

InitPKCE ==
    /\ authCodes = << >>
    /\ refreshTokens = << >>
    /\ now = 0
    /\ advances = 0
    /\ wk = [w \in Workers |-> [pc |-> "idle"]]
    /\ pk \in [verifier : Verifiers, challenge : Challenges, method : Methods,
               generated : {FALSE}, result : {"none"}]
    /\ LifecycleOff
    /\ uc = NoUserClaims

\* The client makes the challenge of its verifier, as GeneratePKCE does.
PKCEGenerate ==
    /\ pk.verifier # NoVerifier
    /\ ~pk.generated
    /\ pk' = [pk EXCEPT !.challenge = GeneratePKCE(pk.verifier),
                        !.method = "S256", !.generated = TRUE,
                        !.result = "none"]
    /\ UNCHANGED << authCodes, refreshTokens, now, advances, wk, lifecycle, others >>

\* The pair is checked.
PKCEValidate ==
    /\ pk.result = "none"
    /\ pk' = [pk EXCEPT !.result =
                  IF validatePKCE(pk.verifier, pk.challenge, pk.method)
                  THEN "valid" ELSE "invalid"]
    /\ UNCHANGED << authCodes, refreshTokens, now, advances, wk, lifecycle, others >>

PKCELogin ==
    \E p \in Plugins :
        AuthorizeSubmit(1, p,
            AuthorizeRequest("alice@example.com", "password123", "public-app",
                AppCallback, << "openid", "profile" >>, pk.challenge, pk.method))

PKCERedeem ==
    \E p \in Plugins :
        TokenAuthorizationCode(1, p,
            CodeRequest(Form("public-app", ""), 1, AppCallback, pk.verifier))

NextPKCE ==
    \/ PKCEGenerate
    \/ PKCEValidate
    \/ PKCELogin
    \/ PKCERedeem
    \/ TokenIssue(1, "none")

SpecPKCE == InitPKCE /\ [][NextPKCE]_vars

(***************************************************************************)
(* MockIdP.UserClaims on users with and without custom claims, for every   *)
(* short list of scopes.                                                   *)
(***************************************************************************)

\* How many scopes a UserClaims call is given.
MaxScopes == 2

\* A claim value with its Go type.
Str(v) == [t |-> "string", v |-> v]
Num(v) == [t |-> "int64", v |-> v]
Bool(v) == [t |-> "bool", v |-> v]
List(v) == [t |-> "[]string", v |-> v]

\* The users UserClaims is asked about: one without custom claims, one
\* with a custom claim of its own, one whose custom claims use the names of
\* standard claims.  CreatedAt is in seconds since the epoch.
ClaimUsers ==
    [id \in {"alice", "bob", "admin"} |->
        IF id = "alice" THEN
            [ID |-> id, Name |-> "Alice Johnson", Email |-> "alice@example.com",
             CreatedAt |-> 1700000000, Roles |-> << "user" >>, Claims |-> << >>]
        ELSE IF id = "bob" THEN
            [ID |-> id, Name |-> "Bob Smith", Email |-> "bob@example.com",
             CreatedAt |-> 1700000001, Roles |-> << "user" >>,
             Claims |-> [k \in {"department"} |-> Str("Sales")]]
        ELSE
            [ID |-> id, Name |-> "Admin User", Email |-> "admin@example.com",
             CreatedAt |-> 1700000002, Roles |-> << "admin", "user" >>,
             Claims |-> [k \in {"name", "email_verified", "sub"} |->
                            IF k = "name" THEN Str("Root")
                            ELSE IF k = "email_verified" THEN Bool(FALSE)
                            ELSE Str("admin-1")]]]

ScopeNames == {"profile", "email", "roles", "openid", "address"}

ScopeLists == UNION { [1..n -> ScopeNames] : n \in 0..MaxScopes }

\* claims[k] = v
Put(claims, k, v) ==
    [x \in DOMAIN claims \cup {k} |-> IF x = k THEN v ELSE claims[x]]

\* One round of the loop over the scopes.
ScopeClaims(claims, user, scope) ==
    IF scope = "profile" THEN
        Put(Put(Put(claims, "name", Str(user.Name)),
                "preferred_username", Str(user.ID)),
            "updated_at", Num(user.CreatedAt))
    ELSE IF scope = "email" THEN
        Put(Put(claims, "email", Str(user.Email)), "email_verified", Bool(TRUE))
    ELSE IF scope = "roles" THEN
        Put(claims, "roles", List(user.Roles))
    ELSE claims

\* The loop over the scopes, in order.
RECURSIVE AllScopeClaims(_, _, _)
AllScopeClaims(claims, user, scopes) ==
    IF scopes = << >> THEN claims
    ELSE AllScopeClaims(ScopeClaims(claims, user, Head(scopes)), user, Tail(scopes))

\* The loop over user.Claims.
MergeClaims(claims, custom) ==
    [k \in DOMAIN claims \cup DOMAIN custom |->
        IF k \in DOMAIN custom THEN custom[k] ELSE claims[k]]

\* A UserClaims that lets the standard claims win over the custom ones.
UserClaims_CustomFirst(userID, scopes) ==
    IF userID \notin DOMAIN ClaimUsers THEN [nil |-> TRUE, claims |-> << >>]
    ELSE [nil |-> FALSE,
          claims |->
              AllScopeClaims(
                  MergeClaims(ClaimUsers[userID].Claims,
                      [k \in {"sub"} |-> Str(ClaimUsers[userID].ID)]),
                  ClaimUsers[userID], scopes)]

UserClaims(userID, scopes) ==
    IF userID \notin DOMAIN ClaimUsers THEN [nil |-> TRUE, claims |-> << >>]
    ELSE [nil |-> FALSE,
          claims |->
              MergeClaims(
                  AllScopeClaims([k \in {"sub"} |-> Str(ClaimUsers[userID].ID)],
                                 ClaimUsers[userID], scopes),
                  ClaimUsers[userID].Claims)]

InitClaims ==
    /\ authCodes = << >>
    /\ refreshTokens = << >>
    /\ now = 0
    /\ advances = 0
    /\ wk = [w \in Workers |-> [pc |-> "idle"]]
    /\ pk = PKCEOff
    /\ LifecycleOff
    /\ uc \in [user : DOMAIN ClaimUsers \cup {"ghost"}, scopes : ScopeLists,
                done : {FALSE}, nil : {FALSE}, claims : {<< >>}]

UserClaimsCall ==
    /\ ~uc.done
    /\ \E r \in {UserClaims(uc.user, uc.scopes)} :
           uc' = [uc EXCEPT !.done = TRUE, !.nil = r.nil, !.claims = r.claims]
    /\ UNCHANGED << idp, lifecycle, bus, fe, cc >>

NextClaims == UserClaimsCall

SpecClaims == InitClaims /\ [][NextClaims]_vars

(***************************************************************************)
(* Two goroutines, each calling Initialize or Shutdown once on the same    *)
(* ManagedPlugin.                                                          *)
(***************************************************************************)

NextConcurrent ==
    \/ \E g \in Goroutines, op \in {"Initialize", "Shutdown"} :
           ConcurrentEnter(g, op)
    \/ \E g \in Goroutines, err \in {NoError, PluginError} :
           ConcurrentPlugin(g, err)
    \/ \E g \in Goroutines : ConcurrentRecord(g)

SpecConcurrent == Init /\ [][NextConcurrent]_vars

(***************************************************************************)
(* The browser between the redirect to the provider and the callback.      *)
(***************************************************************************)

States == {"s1", "s2", ""}

CallbackURLs ==
    [code : {Null, Some("code-1")},
     error : {Null, Some("access_denied")},
     error_description : {Null},
     state : {Null} \cup {Some(st) : st \in States}]

\* The ends of the token fetch: the tokens; the errors the token endpoint
\* writes, with both fields, with the code alone and with neither; a body
\* that is not JSON under either status; a network error.
FetchAnswers ==
    { FetchResponse(TRUE, Null, Null),
      FetchResponse(FALSE, Some("invalid_grant"), Some("Invalid authorization code")),
      FetchResponse(FALSE, Some("invalid_client"), Null),
      FetchResponse(FALSE, Null, Null),
      FetchNotJSON(TRUE, "Unexpected token '<'"),
      FetchNotJSON(FALSE, "Unexpected token '<'"),
      FetchRejected("Failed to fetch") }

NextCallback ==
    \/ \E state \in States : StoreState(state)
    \/ StoreVerifier("verifier-1")
    \/ \E flowType \in {"oauth2", "oidc"} : StoreFlowType(flowType)
    \/ \E url \in CallbackURLs : Callback(url)
    \/ \E answer \in FetchAnswers : FetchResolve(answer)

SpecCallback == Init /\ [][NextCallback]_vars

NextStorage ==
    \/ \E state \in States : StoreState(state)
    \/ \E state \in States : ValidateState(state)
    \/ \E verifier \in {"verifier-1", "verifier-2"} : StoreVerifier(verifier)
    \/ GetVerifier
    \/ StoreNonce("nonce-1")
    \/ GetNonce
    \/ ClearAll
    \/ \E flowType \in {"oauth2", "oidc"} : StoreFlowType(flowType)

SpecStorage == Init /\ [][NextStorage]_vars

(***************************************************************************)
(* The event bus under publishers and subscribers that may be slow.        *)
(***************************************************************************)

NextBus ==
    \/ \E stage \in Stages, outcome \in {"success", "error"} :
           Publish(stage, outcome)
    \/ \E s \in Subscribers : Subscribe(s)
    \/ \E s \in Subscribers : Receive(s)

SpecBus == Init /\ [][NextBus]_vars

(***************************************************************************)
(* The authorization endpoint asked for the login form, between logins.    *)
(***************************************************************************)

GetRequests ==
    [responseType : {"code", "token", ""},
     clientID : {"demo-app", "machine-client", "ghost-app", ""},
     redirectURI : {AppCallback, EvilCallback, ""},
     scope : {<< "profile" >>},
     state : {"", "xyz"},
     codeChallenge : {<< >>},
     codeChallengeMethod : {""}]

NextAuthorize ==
    \/ \E req \in GetRequests : Authorize(1, req)
    \/ \E req \in AuthorizeRequests : AuthorizeSubmit(1, "oauth2", req)

SpecAuthorize == Init /\ [][NextAuthorize]_vars

(***************************************************************************)
(* Login submissions with and without a state, with a right and a wrong    *)
(* password, for a registered and an unregistered redirect URI.            *)
(***************************************************************************)

SubmitRequests ==
    { [req EXCEPT !.state = st] : req \in AuthorizeRequests, st \in {"", "xyz"} }

NextSubmit ==
    \/ \E p \in Plugins, req \in SubmitRequests : AuthorizeSubmit(1, p, req)
    \/ \E p \in Plugins, req \in CodeRequests : TokenAuthorizationCode(1, p, req)
    \/ TokenIssue(1, "none")

SpecSubmit == Init /\ [][NextSubmit]_vars

(***************************************************************************)
(* The token endpoint asked for each grant by clients registered for it    *)
(* and by clients that are not.                                            *)
(***************************************************************************)

\* Logins naming the web client and the machine client.
GrantLogins ==
    { AuthorizeRequest("alice@example.com", "password123", c, AppCallback,
                       << "profile" >>, << >>, "") :
        c \in {"demo-app", "machine-client"} }

GrantClients ==
    { Form("demo-app", "demo-secret"), Form("machine-client", "machine-secret"),
      Form("machine-client", "wrong-secret") }

NextGrants ==
    \/ \E p \in Plugins, req \in GrantLogins : AuthorizeSubmit(1, p, req)
    \/ \E p \in Plugins, c \in GrantClients :
            TokenAuthorizationCode(1, p, CodeRequest(c, 1, AppCallback, NoVerifier))
    \/ \E p \in Plugins, c \in GrantClients, i \in 1..Len(refreshTokens) :
            TokenRefresh(1, p, RefreshRequest(c, refreshTokens[i].Token, << >>))
    \/ TokenIssue(1, "none")
    \/ \E c \in GrantClients :
            TokenClientCredentials(1,
                [clientID |-> c.clientID, clientSecret |-> c.clientSecret,
                 basicID |-> c.basicID, basicSecret |-> c.basicSecret,
                 scope |-> << "api:read" >>], "none")

SpecGrants == Init /\ [][NextGrants]_vars

(***************************************************************************)
(* The lifecycle of two managed plugins, each given a choice of hooks,     *)
(* their calls interleaving.                                               *)
(***************************************************************************)

InitLifecycle ==
    /\ authCodes = << >>
    /\ refreshTokens = << >>
    /\ now = 0
    /\ advances = 0
    /\ wk = [w \in Workers |-> [pc |-> "idle"]]
    /\ pk = PKCEOff
    /\ states = << >>
    /\ errors = << >>
    /\ mp \in [PluginIDs -> {ManagedPlugin(hooks) : hooks \in HookSets}]
    /\ log = [id \in PluginIDs |-> << >>]
    /\ hc = NoHealthChecks
    /\ uc = NoUserClaims
    /\ bus = NoBus
    /\ fe = NoFrontend
    /\ cc = NoConcurrentCalls

NextLifecycle ==
    \/ \E id \in PluginIDs : InitializeCall(id)
    \/ \E id \in PluginIDs, err \in {NoError, HookError} :
           InitializeHook(id, err)
    \/ \E id \in PluginIDs, err \in {NoError, PluginError} :
           InitializeOwn(id, err)
    \/ \E id \in PluginIDs : InitializeDone(id)
    \/ \E id \in PluginIDs : ShutdownCall(id)
    \/ \E id \in PluginIDs, err \in {NoError, HookError} :
           ShutdownHook(id, err)
    \/ \E id \in PluginIDs, err \in {NoError, PluginError} :
           ShutdownOwn(id, err)

SpecLifecycle == InitLifecycle /\ [][NextLifecycle]_vars

(***************************************************************************)
(* Initialization under a context that may be cancelled.                   *)
(***************************************************************************)

NextCancel ==
    \/ \E id \in PluginIDs : Cancel(id)
    \/ \E id \in PluginIDs : InitializeCall(id)
    \/ \E id \in PluginIDs : \E err \in Outcomes(id, HookError) :
           InitializeHook(id, err)
    \/ \E id \in PluginIDs : \E err \in Outcomes(id, PluginError) :
           InitializeOwn(id, err)
    \/ \E id \in PluginIDs : InitializeDone(id)

SpecCancel == InitLifecycle /\ [][NextCancel]_vars

(***************************************************************************)
(* Health checks taken while the plugins are initialized and shut down.    *)
(***************************************************************************)

NextHealth ==
    \/ NextLifecycle
    \/ GetHealthChecksLock
    \/ \E id \in PluginIDs : GetHealthChecksEntry(id)
    \/ GetHealthChecksReturn

SpecHealth == Init /\ [][NextHealth]_vars

(***************************************************************************)
(* Properties.                                                             *)
(***************************************************************************)

\* The worker has sent a token request redeeming code c, which is issued.
Attempt(w, c) ==
    /\ c \in 1..Len(authCodes)
    /\ wk[w].pc \in {"issue", "done"}
    /\ wk[w].op = "authorization_code"
    /\ wk[w].req.code = c

\* The worker's token request was granted.
Won(w) ==
    \/ wk[w].pc = "issue"
    \/ wk[w].pc = "done" /\ wk[w].resp.status = 200

\* The worker's request presented code c with the client and the redirect URI
\* the code was issued for, before the code expired.
Binding(w, c) ==
    /\ TokenClientID(wk[w].req) = authCodes[c].ClientID
    /\ wk[w].req.redirectURI = authCodes[c].RedirectURI
    /\ wk[w].at <= authCodes[c].ExpiresAt

\* The step is the first step of worker w serving a request of kind op.
Starts(w, op) ==
    /\ wk[w].pc # "issue"
    /\ wk'[w] # wk[w]
    /\ wk'[w].op = op

\* The response carries no token.
NoTokens(resp) ==
    /\ "accessToken" \notin DOMAIN resp
    /\ "refreshToken" \notin DOMAIN resp
    /\ "idToken" \notin DOMAIN resp

\* C1: of the redemptions of one authorization code, at either plugin's token
\* endpoint, at most one succeeds, and once one has succeeded every other one
\* is answered invalid_grant; and, in every interleaving, a redemption that
\* presents the code with its client and redirect URI before it expires
\* succeeds exactly when no redemption has consumed the code before it, and
\* leaves the code consumed: of two such redemptions in flight together, the
\* first to reach the store succeeds and the other does not.
C1_SingleRedemption ==
    /\ [](\A c \in 1..Len(authCodes) : \A w1, w2 \in Workers :
            (w1 # w2 /\ Attempt(w1, c) /\ Attempt(w2, c)) =>
                /\ ~(Won(w1) /\ Won(w2))
                /\ (Won(w1) /\ wk[w2].pc = "done") =>
                        /\ wk[w2].resp.status = 400
                        /\ wk[w2].resp.error = "invalid_grant")
    /\ [][ \A w \in Workers :
              Starts(w, "authorization_code") =>
                  LET req == wk'[w].req
                      c   == req.code
                  IN  (/\ c \in 1..Len(authCodes)
                       /\ ~ClientAuthFails(TokenClientID(req), TokenClientSecret(req))
                       /\ TokenClientID(req) = authCodes[c].ClientID
                       /\ req.redirectURI = authCodes[c].RedirectURI
                       /\ now <= authCodes[c].ExpiresAt
                       /\ authCodes[c].CodeChallenge = << >>) =>
                          /\ wk'[w].pc = "issue" <=> ~authCodes[c].Used
                          /\ wk'[w].pc # "issue" =>
                                 wk'[w].resp.error = "invalid_grant"
                          /\ authCodes'[c].Used ]_vars

\* C1, reached: worker 2 was refused the code while worker 1, which had been
\* granted it, had not yet answered.
C1_Witness ==
    /\ Attempt(1, 1) /\ wk[1].pc = "issue"
    /\ Attempt(2, 1) /\ wk[2].pc = "done"
    /\ Binding(2, 1)
    /\ wk[2].resp.error = "invalid_grant"

\* C2: a token request that presents an issued code with another client_id,
\* another redirect_uri, or after the code's expiry, is answered with an error
\* (invalid_grant whenever the client authenticates), carries no token, and
\* leaves the codes and the refresh tokens as they were.
C2_CodeBoundToClientAndRedirect ==
    [][ Starts(1, "authorization_code") =>
          LET req == wk'[1].req
              c   == req.code
          IN  (/\ c \in 1..Len(authCodes)
               /\ \/ TokenClientID(req) # authCodes[c].ClientID
                  \/ req.redirectURI # authCodes[c].RedirectURI
                  \/ now > authCodes[c].ExpiresAt)
              =>
              /\ wk'[1].pc = "done"
              /\ wk'[1].resp.error \in {"invalid_grant", "invalid_client"}
              /\ ValidateClient(TokenClientID(req), TokenClientSecret(req))
                    => (wk'[1].resp.error = "invalid_grant"
                        /\ wk'[1].resp.status = 400)
              /\ NoTokens(wk'[1].resp)
              /\ authCodes' = authCodes
              /\ refreshTokens' = refreshTokens ]_vars

\* C2, reached: a client that authenticates presented an unused, unexpired
\* code issued to another client and was answered invalid_grant.
C2_Witness ==
    /\ Attempt(1, 1) /\ wk[1].pc = "done"
    /\ ValidateClient(TokenClientID(wk[1].req), TokenClientSecret(wk[1].req))
    /\ TokenClientID(wk[1].req) # authCodes[1].ClientID
    /\ wk[1].req.redirectURI = authCodes[1].RedirectURI
    /\ wk[1].at <= authCodes[1].ExpiresAt
    /\ ~authCodes[1].Used
    /\ wk[1].resp.error = "invalid_grant"

\* base64url without padding of SHA-256 of each verifier, as known answers.
ReferenceS256 ==
    [v \in Verifiers \ {NoVerifier} |->
        IF v = Verifier1 THEN Challenge1
        ELSE IF v = Verifier2 THEN Challenge2
        ELSE IF v = Verifier3 THEN Challenge3
        ELSE Challenge4]

\* The predicate of the S256 check.
MatchesS256(verifier, challenge) ==
    /\ verifier # NoVerifier
    /\ ReferenceS256[verifier] = challenge

\* C3: validatePKCE(verifier, challenge, "S256") holds exactly when the
\* verifier is not empty and the unpadded base64url of its SHA-256 is the
\* challenge; GeneratePKCE gives that challenge; and the redemption of an
\* unused, unexpired code issued with a challenge and method S256, by its
\* client with its redirect URI, succeeds exactly when the presented verifier
\* passes, and is answered invalid_grant when it does not.
C3_PKCES256 ==
    /\ [](/\ (pk.result \in {"valid", "invalid"} /\ pk.method = "S256") =>
                (pk.result = "valid" <=> MatchesS256(pk.verifier, pk.challenge))
          /\ pk.generated => pk.challenge = ReferenceS256[pk.verifier])
    /\ [][ Starts(1, "authorization_code") =>
             LET req == wk'[1].req
                 c   == req.code
             IN  (/\ c \in 1..Len(authCodes)
                  /\ authCodes[c].CodeChallenge # << >>
                  /\ authCodes[c].CodeChallengeMethod = "S256"
                  /\ ~authCodes[c].Used
                  /\ now <= authCodes[c].ExpiresAt
                  /\ TokenClientID(req) = authCodes[c].ClientID
                  /\ req.redirectURI = authCodes[c].RedirectURI)
                 =>
                 /\ wk'[1].pc = "issue" <=>
                        MatchesS256(req.codeVerifier, authCodes[c].CodeChallenge)
                 /\ wk'[1].pc = "done" =>
                        /\ wk'[1].resp.status = 400
                        /\ wk'[1].resp.error = "invalid_grant" ]_vars

\* C3, reached: a verifier that differs from the original in its last
\* character failed the check and the redemption.
C3_Witness ==
    /\ pk.verifier = Verifier2
    /\ pk.result = "invalid"
    /\ Attempt(1, 1) /\ wk[1].pc = "done"
    /\ authCodes[1].CodeChallenge = Challenge1
    /\ authCodes[1].CodeChallengeMethod = "S256"
    /\ wk[1].resp.error = "invalid_grant"

\* The step is a login submission at the plugin, served by worker 1.
Submits(plugin) ==
    /\ wk'[1] # wk[1]
    /\ wk'[1].op = "authorize"
    /\ wk'[1].plugin = plugin

\* C4: a login submission to the OIDC plugin whose redirect_uri is not
\* registered for its client_id is answered 400 invalid_request, whatever the
\* credentials, and creates no code; a code is created and a redirect is
\* issued only for a registered redirect_uri, and the redirect goes there.
C4_OIDCSubmitValidatesRedirect ==
    [][ Submits("oidc") =>
          LET req == wk'[1].req
              ok  == ValidateRedirectURI(req.clientID, req.redirectURI)
          IN  /\ ~ok => /\ wk'[1].resp.status = 400
                        /\ wk'[1].resp.error = "invalid_request"
                        /\ authCodes' = authCodes
              /\ authCodes' # authCodes => ok
              /\ wk'[1].resp.status = 302 =>
                    (ok /\ wk'[1].resp.location = req.redirectURI) ]_vars

\* C4, reached: a submission with a wrong password and an unregistered
\* redirect URI was refused at the OIDC plugin.
C4_Witness ==
    /\ wk[1].pc = "done" /\ wk[1].op = "authorize" /\ wk[1].plugin = "oidc"
    /\ wk[1].req.redirectURI = EvilCallback
    /\ wk[1].req.password = "wrong"
    /\ wk[1].resp.error = "invalid_request"
    /\ authCodes = << >>

\* C5: every 302 of the OAuth2 plugin's login submission goes to a redirect
\* URI registered for the submitted client_id.
C5_OAuth2SubmitValidatesRedirect ==
    (/\ wk[1].pc = "done" /\ wk[1].op = "authorize" /\ wk[1].plugin = "oauth2"
     /\ wk[1].resp.status = 302)
    => ValidateRedirectURI(wk[1].req.clientID, wk[1].req.redirectURI)

\* The step is the first step of worker 1 serving a token request of either
\* grant.
StartsGrant == Starts(1, "authorization_code") \/ Starts(1, "refresh_token")

\* The stored entry of the token is revoked, or one of the other reasons for
\* which a refresh token is refused to the client holds at time t.
Revoked(tokens, token) ==
    StoredAs(tokens, token) # {} /\ StoredToken(tokens, token).Revoked

Unusable(tokens, t, token, clientID) ==
    \/ StoredAs(tokens, token) = {}
    \/ Revoked(tokens, token)
    \/ StoredToken(tokens, token).ClientID # clientID
    \/ t > StoredToken(tokens, token).ExpiresAt

\* C6: at the authorization_code and refresh_token grants of both plugins, a
\* public client is never answered invalid_client, whatever secret it sends,
\* and a registered client that is not public and sends a wrong or no secret
\* is answered invalid_client, gets no token, and changes no store.
C6_ClientSecretByClientType ==
    [][ StartsGrant =>
          LET req    == wk'[1].req
              id     == TokenClientID(req)
              secret == TokenClientSecret(req)
          IN  /\ (ClientExists(id) /\ Clients[id].Public) =>
                    (wk'[1].pc = "done" => wk'[1].resp.error # "invalid_client")
              /\ (ClientExists(id) /\ ~Clients[id].Public
                    /\ secret # Clients[id].Secret) =>
                    /\ wk'[1].pc = "done"
                    /\ wk'[1].resp.error = "invalid_client"
                    /\ wk'[1].resp.status = InvalidClientStatus(wk'[1].plugin)
                    /\ NoTokens(wk'[1].resp)
                    /\ authCodes' = authCodes
                    /\ refreshTokens' = refreshTokens ]_vars

\* C6, reached: a public client sent a wrong secret with its refresh token
\* and was given tokens.
C6_Witness ==
    /\ wk[1].pc = "done" /\ wk[1].op = "refresh_token"
    /\ TokenClientID(wk[1].req) = "public-app"
    /\ TokenClientSecret(wk[1].req) = "wrong-secret"
    /\ wk[1].resp.status = 200
    /\ wk[1].resp.accessToken.typ = "access"

\* C7: after a refresh_token grant has succeeded, a refresh_token grant that
\* presents the same, old refresh token is refused.
C7_OldRefreshTokenRefused ==
    [][ (/\ wk[1].pc = "done" /\ wk[1].op = "refresh_token"
         /\ wk[1].resp.status = 200
         /\ Starts(1, "refresh_token")
         /\ wk'[1].req.refreshToken = wk[1].req.refreshToken)
        =>
        (/\ wk'[1].pc = "done"
         /\ wk'[1].resp.error \in {"invalid_grant", "invalid_client"}) ]_vars

\* C8: a refresh_token grant by a client that authenticates, presenting a
\* token that is unknown, revoked, stored for another client or expired, is
\* answered 400 invalid_grant, carries no token, and stores nothing.
C8_RefreshTokenBoundToClient ==
    [][ Starts(1, "refresh_token") =>
          LET req == wk'[1].req
              id  == TokenClientID(req)
          IN  (/\ ValidateClient(id, TokenClientSecret(req))
               /\ Unusable(refreshTokens, now, req.refreshToken, id))
              =>
              /\ wk'[1].pc = "done"
              /\ wk'[1].resp.status = 400
              /\ wk'[1].resp.error = "invalid_grant"
              /\ NoTokens(wk'[1].resp)
              /\ refreshTokens' = refreshTokens ]_vars

\* C8, reached: a client that authenticates presented an unrevoked, unexpired
\* refresh token stored for another client and was answered invalid_grant.
C8_Witness ==
    /\ wk[1].pc = "done" /\ wk[1].op = "refresh_token"
    /\ ValidateClient(TokenClientID(wk[1].req), TokenClientSecret(wk[1].req))
    /\ StoredAs(refreshTokens, wk[1].req.refreshToken) # {}
    /\ ~Revoked(refreshTokens, wk[1].req.refreshToken)
    /\ StoredToken(refreshTokens, wk[1].req.refreshToken).ClientID
            # TokenClientID(wk[1].req)
    /\ wk[1].at <= StoredToken(refreshTokens, wk[1].req.refreshToken).ExpiresAt
    /\ wk[1].resp.error = "invalid_grant"

\* C9: a revocation request by a client that authenticates, with the hint
\* refresh_token or none, is answered 200 and leaves the token revoked, also
\* when it was revoked before; a revoked token stays revoked; and a
\* refresh_token grant presenting a revoked token is refused, with
\* invalid_grant whenever the client authenticates.
C9_RevokedRefreshTokenRefused ==
    /\ [][ (/\ Starts(1, "revoke")
            /\ ValidateClient(HeaderClientID(wk'[1].req),
                              HeaderClientSecret(wk'[1].req))
            /\ wk'[1].req.tokenTypeHint \in {"", "refresh_token"})
           =>
           /\ wk'[1].resp.status = 200
           /\ wk'[1].resp.error = ""
           /\ StoredAs(refreshTokens, wk'[1].req.token) # {} =>
                    Revoked(refreshTokens', wk'[1].req.token) ]_vars
    /\ [][ \A i \in 1..Len(refreshTokens) :
              refreshTokens[i].Revoked =>
                  /\ i \in 1..Len(refreshTokens')
                  /\ refreshTokens'[i].Token = refreshTokens[i].Token
                  /\ refreshTokens'[i].Revoked ]_vars
    /\ [][ (/\ Starts(1, "refresh_token")
            /\ Revoked(refreshTokens, wk'[1].req.refreshToken))
           =>
           /\ wk'[1].pc = "done"
           /\ wk'[1].resp.error \in {"invalid_grant", "invalid_client"}
           /\ ValidateClient(TokenClientID(wk'[1].req),
                             TokenClientSecret(wk'[1].req))
                 => (wk'[1].resp.status = 400
                     /\ wk'[1].resp.error = "invalid_grant") ]_vars

\* C9, reached: the client a refresh token is stored for presented it, before
\* its expiry, after its revocation, and was answered invalid_grant.
C9_Witness ==
    /\ wk[1].pc = "done" /\ wk[1].op = "refresh_token"
    /\ ValidateClient(TokenClientID(wk[1].req), TokenClientSecret(wk[1].req))
    /\ Revoked(refreshTokens, wk[1].req.refreshToken)
    /\ StoredToken(refreshTokens, wk[1].req.refreshToken).ClientID
            = TokenClientID(wk[1].req)
    /\ wk[1].at <= StoredToken(refreshTokens, wk[1].req.refreshToken).ExpiresAt
    /\ wk[1].resp.error = "invalid_grant"

\* C10: the introspection, by a client that authenticates, of a token that is
\* revoked or has expired is answered 200 with active false.
C10_RevokedOrExpiredInactive ==
    (/\ wk[1].pc = "done" /\ wk[1].op = "introspect"
     /\ ValidateClient(HeaderClientID(wk[1].req), HeaderClientSecret(wk[1].req))
     /\ \/ Revoked(refreshTokens, wk[1].req.token)
        \/ /\ wk[1].req.token # GarbageToken
           /\ wk[1].at > wk[1].req.token.exp)
    =>
    (wk[1].resp.status = 200 /\ ~wk[1].resp.active)

\* A revocation request has been served to a client that authenticated.
RevokeServed ==
    /\ wk[1].pc = "done" /\ wk[1].op = "revoke"
    /\ ~ClientAuthFails(HeaderClientID(wk[1].req), HeaderClientSecret(wk[1].req))

\* C11: the revocation endpoint answers 200, with no error, every request of
\* a client that authenticates: whether the token is unknown, was revoked
\* before, comes with a hint other than refresh_token, or is valid.
C11_RevokeAlways200 ==
    RevokeServed => (wk[1].resp.status = 200 /\ wk[1].resp.error = "")

\* C11, reached: a token that was revoked before was sent again with the hint
\* access_token, and the answer was 200.
C11_Witness ==
    /\ RevokeServed
    /\ wk[1].req.tokenTypeHint = "access_token"
    /\ Revoked(refreshTokens, wk[1].req.token)
    /\ wk[1].resp.status = 200

\* C12: a client_credentials grant that succeeds answers with an access
\* token whose subject and audience are the client that authenticated, with
\* no refresh token and no ID token, and leaves the refresh-token store (and
\* the authorization codes) as they were.
C12_ClientCredentialsAccessOnly ==
    [][ (Starts(1, "client_credentials") /\ wk'[1].resp.status = 200) =>
            /\ wk'[1].resp.accessToken.typ = "access"
            /\ wk'[1].resp.accessToken.sub = TokenClientID(wk'[1].req)
            /\ wk'[1].resp.accessToken.aud = TokenClientID(wk'[1].req)
            /\ wk'[1].resp.refreshToken = NoToken
            /\ wk'[1].resp.idToken = NoToken
            /\ refreshTokens' = refreshTokens
            /\ authCodes' = authCodes ]_vars

\* C12, reached: the machine client was granted a token while refresh tokens
\* of other grants were stored.
C12_Witness ==
    /\ wk[1].pc = "done" /\ wk[1].op = "client_credentials"
    /\ wk[1].resp.status = 200
    /\ wk[1].resp.accessToken.sub = "machine-client"
    /\ refreshTokens # << >>

\* The token request of kind op was answered with tokens by the plugin.
Granted(plugin, op) ==
    /\ wk[1].pc = "done" /\ wk[1].op = op /\ wk[1].plugin = plugin
    /\ wk[1].resp.status = 200

\* The scope in effect for the granted request: the code's scope, or the
\* scope of the refresh request and, when it sends none, of its token.
EffectiveScope ==
    IF wk[1].op = "authorization_code" THEN authCodes[wk[1].req.code].Scope
    ELSE IF wk[1].req.scope = << >>
         THEN StoredToken(refreshTokens, wk[1].req.refreshToken).Scope
         ELSE wk[1].req.scope

\* C13: a token response of the OIDC plugin to an authorization_code or a
\* refresh_token grant has an ID token exactly when openid is an element of
\* the scope in effect, and the ID token of a code exchange carries the nonce
\* recorded with the code.
C13_OIDCIDTokenIffOpenID ==
    \A op \in {"authorization_code", "refresh_token"} :
        Granted("oidc", op) =>
            /\ wk[1].resp.idToken # NoToken <=> HasOpenID(SplitScope(EffectiveScope))
            /\ (op = "authorization_code" /\ wk[1].resp.idToken # NoToken) =>
                   wk[1].resp.idToken.nonce = authCodes[wk[1].req.code].Nonce

\* C14: a token response of the OAuth2 plugin to an authorization_code grant
\* has an access token and a refresh token, and, when openid is an element
\* of the code's scope, an ID token that carries the code's nonce.
C14_OAuth2CodeExchangeTokens ==
    Granted("oauth2", "authorization_code") =>
        /\ wk[1].resp.accessToken.typ = "access"
        /\ wk[1].resp.refreshToken.typ = "refresh"
        /\ HasOpenID(SplitScope(EffectiveScope)) =>
               /\ wk[1].resp.idToken # NoToken
               /\ wk[1].resp.idToken.nonce = authCodes[wk[1].req.code].Nonce

(***************************************************************************)
(* Properties of the plugin lifecycle.                                     *)
(***************************************************************************)

IsStateSet(e) == e.ev = "state"
IsReturned(e) == e.ev = "return"
IsCalled(e) == e.ev = "call"

\* The values a plugin's recorded state has taken in the observations l,
\* the value before any call first.
StateTrace(l) ==
    << StateUninitialized >>
    \o [i \in 1..Len(SelectSeq(l, IsStateSet)) |-> SelectSeq(l, IsStateSet)[i].st]

\* The operations called and the errors returned in l, in order.
CallsIn(l) ==
    [i \in 1..Len(SelectSeq(l, IsCalled)) |-> SelectSeq(l, IsCalled)[i].st]
ReturnsIn(l) ==
    [i \in 1..Len(SelectSeq(l, IsReturned)) |-> SelectSeq(l, IsReturned)[i].err]

\* The observations up to the return of the n-th call.
UpToReturn(l, n) ==
    SubSeq(l, 1, CHOOSE k \in 1..Len(l) :
                    /\ l[k].ev = "return"
                    /\ Len(ReturnsIn(SubSeq(l, 1, k))) = n)

\* The first call on the plugin was an Initialize and the second a
\* Shutdown, and both returned nil.
InitializedThenShutDown(id) ==
    /\ Len(ReturnsIn(log[id])) >= 2
    /\ SubSeq(CallsIn(log[id]), 1, 2) = << "Initialize", "Shutdown" >>
    /\ SubSeq(ReturnsIn(log[id]), 1, 2) = << NoError, NoError >>

\* C15: for a plugin that starts Uninitialized, a successful Initialize
\* followed by a successful Shutdown makes the recorded state take exactly
\* the values Uninitialized, Initializing, Ready, ShuttingDown, Stopped in
\* this order; the values observed are the ones GetState reports.
C15_LifecycleStatesInOrder ==
    \A id \in PluginIDs :
        /\ StateTrace(log[id])[Len(StateTrace(log[id]))] = GetState(LM, id)
        /\ InitializedThenShutDown(id) =>
               StateTrace(UpToReturn(log[id], 2)) =
                   << StateUninitialized, StateInitializing, StateReady,
                      StateShuttingDown, StateStopped >>

C15_Witness ==
    /\ InitializedThenShutDown("oauth2")
    /\ mp["oauth2"].pc = "idle"
    /\ GetState(LM, "oauth2") = StateStopped
    /\ mp["oidc"].pc # "idle"

\* The observations of the latest call on a plugin.
LastCall(l) ==
    SubSeq(l, CHOOSE k \in 1..Len(l) :
                 /\ l[k].ev = "call"
                 /\ \A j \in (k + 1)..Len(l) : l[j].ev # "call",
           Len(l))

\* The latest call on the plugin was of op and has returned.
Completed(id, op) ==
    /\ log[id] # << >>
    /\ mp[id].pc = "idle"
    /\ mp[id].op = op

\* How often fn was invoked in the observations seg.
Invocations(seg, fn) == Cardinality({i \in 1..Len(seg) : seg[i].ev = fn})

\* fn was invoked in seg and returned the error err.
Failed(seg, fn, err) ==
    /\ err # NoError
    /\ \E i \in 1..Len(seg) : seg[i] = Invoked(fn, err)

\* C16: when the pre-init hook or the plugin's own Initialize returns an
\* error, ManagedPlugin.Initialize returns a non-nil error carrying that
\* cause, the plugin's state is Error and GetError is the cause, the state
\* was never Ready during the call, and the plugin's Initialize was invoked
\* at most once.
C16_InitializeFailureSetsError ==
    \A id \in PluginIDs : Completed(id, "Initialize") =>
        \A seg \in {LastCall(log[id])} :
            \A fn \in {"OnInitialize", "plugin.Initialize"} :
                \A cause \in {HookError, PluginError} :
                    Failed(seg, fn, cause) =>
                        /\ mp[id].ret # NoError
                        /\ Is(mp[id].ret, cause)
                        /\ seg[Len(seg)] = Returned(mp[id].ret)
                        /\ GetState(LM, id) = StateError
                        /\ GetError(LM, id) = cause
                        /\ \A i \in 1..Len(seg) : seg[i] # StateSet(StateReady)
                        /\ Invocations(seg, "plugin.Initialize") <= 1

C16_Witness ==
    /\ Completed("oauth2", "Initialize")
    /\ Failed(LastCall(log["oauth2"]), "plugin.Initialize", PluginError)
    /\ Invocations(LastCall(log["oauth2"]), "OnInitialize") = 1
    /\ GetError(LM, "oauth2") = PluginError
    /\ mp["oauth2"].ret = PluginError
    /\ Len(ReturnsIn(log["oauth2"])) = 2

\* The latest call on the plugin is of op, returned or not.
Calling(id, op) ==
    /\ log[id] # << >>
    /\ mp[id].op = op

\* The state most recently recorded before position k of seg.
StateBefore(seg, k) ==
    StateTrace(SubSeq(seg, 1, k - 1))[Len(StateTrace(SubSeq(seg, 1, k - 1)))]

\* C17: within one ManagedPlugin.Initialize call the plugin's Initialize is
\* invoked only after the pre-init hook, when present, returned nil; the
\* ready hook, when present, runs only after the plugin's Initialize
\* succeeded and with the state already Ready; an absent hook is not
\* invoked, and the call returns nil with the state Ready exactly when the
\* plugin's Initialize succeeded, whichever hooks are absent.
C17_InitializeOrder ==
    /\ [](\A id \in PluginIDs : Calling(id, "Initialize") =>
            \A seg \in {LastCall(log[id])} :
                /\ \A j \in 1..Len(seg) : seg[j].ev = "plugin.Initialize" =>
                       /\ "OnInitialize" \in mp[id].hooks =>
                              \E i \in 1..(j - 1) :
                                  seg[i] = Invoked("OnInitialize", NoError)
                       /\ \A i \in 1..Len(seg) : seg[i].ev = "OnInitialize" =>
                              i < j /\ seg[i].err = NoError
                /\ \A k \in 1..Len(seg) : seg[k].ev = "OnReady" =>
                       /\ \E j \in 1..(k - 1) :
                              seg[j] = Invoked("plugin.Initialize", NoError)
                       /\ StateBefore(seg, k) = StateReady
                /\ "OnInitialize" \notin mp[id].hooks =>
                       Invocations(seg, "OnInitialize") = 0
                /\ "OnReady" \notin mp[id].hooks =>
                       Invocations(seg, "OnReady") = 0
                /\ mp[id].pc = "idle" =>
                       /\ mp[id].ret = NoError <=>
                              \E j \in 1..Len(seg) :
                                  seg[j] = Invoked("plugin.Initialize", NoError)
                       /\ mp[id].ret = NoError =>
                              /\ GetState(LM, id) = StateReady
                              /\ "OnReady" \in mp[id].hooks =>
                                     Invocations(seg, "OnReady") = 1
                       /\ "OnInitialize" \in mp[id].hooks =>
                              Invocations(seg, "OnInitialize") = 1)
    /\ [][\A id \in PluginIDs :
             Invocations(log'[id], "OnReady") > Invocations(log[id], "OnReady")
                 => GetState(LM, id) = StateReady]_vars

C17_Witness ==
    /\ mp["oauth2"].hooks = AllHooks
    /\ Completed("oauth2", "Initialize")
    /\ Invocations(LastCall(log["oauth2"]), "OnReady") = 1
    /\ mp["oidc"].hooks = NoHooks
    /\ Completed("oidc", "Initialize")
    /\ mp["oidc"].ret = NoError
    /\ Len(LastCall(log["oidc"])) = 5

\* C18: ManagedPlugin.Shutdown runs the shutdown hook, when present, and
\* then the plugin's Shutdown; when both succeed the state is Stopped on
\* return and nil is returned; when either fails the state is Error, the
\* cause is recorded and a non-nil error carrying it is returned; the
\* plugin's Shutdown is not invoked when the hook failed.
C18_ShutdownOutcome ==
    \A id \in PluginIDs : Calling(id, "Shutdown") =>
        \A seg \in {LastCall(log[id])} :
            /\ \A j \in 1..Len(seg) : seg[j].ev = "plugin.Shutdown" =>
                   /\ "OnShutdown" \in mp[id].hooks =>
                          \E i \in 1..(j - 1) :
                              seg[i] = Invoked("OnShutdown", NoError)
                   /\ \A i \in 1..Len(seg) : seg[i].ev = "OnShutdown" =>
                          i < j /\ seg[i].err = NoError
            /\ Invocations(seg, "plugin.Shutdown") <= 1
            /\ mp[id].pc = "idle" =>
                   /\ (\E j \in 1..Len(seg) :
                           seg[j] = Invoked("plugin.Shutdown", NoError)) =>
                          /\ GetState(LM, id) = StateStopped
                          /\ GetError(LM, id) = NoError
                          /\ mp[id].ret = NoError
                   /\ \A fn \in {"OnShutdown", "plugin.Shutdown"} :
                          \A cause \in {HookError, PluginError} :
                              Failed(seg, fn, cause) =>
                                  /\ GetState(LM, id) = StateError
                                  /\ GetError(LM, id) = cause
                                  /\ mp[id].ret # NoError
                                  /\ Is(mp[id].ret, cause)
                   /\ mp[id].ret = NoError =>
                          \E j \in 1..Len(seg) :
                              seg[j] = Invoked("plugin.Shutdown", NoError)
                   /\ seg[Len(seg)] = Returned(mp[id].ret)

C18_Witness ==
    /\ Completed("oauth2", "Shutdown")
    /\ Failed(LastCall(log["oauth2"]), "OnShutdown", HookError)
    /\ Invocations(LastCall(log["oauth2"]), "plugin.Shutdown") = 0
    /\ GetError(LM, "oauth2") = HookError
    /\ Completed("oidc", "Shutdown")
    /\ GetState(LM, "oidc") = StateStopped
    /\ Invocations(LastCall(log["oidc"]), "OnShutdown") = 1

\* The step begins a call of op on the plugin.
Begins(id, op) ==
    /\ mp[id].pc = "idle"
    /\ mp'[id].pc # "idle"
    /\ mp'[id].op = op

\* The manager after the step.
NextLM == [states |-> states', errors |-> errors']

\* C19: once a plugin's state is Error it stays Error until an Initialize
\* is called on that plugin; no other lifecycle operation, in particular a
\* Shutdown of that plugin or an operation on another plugin, moves it out
\* of Error.
C19_ErrorUntilInitialize ==
    [][\A id \in PluginIDs :
          (GetState(LM, id) = StateError /\ GetState(NextLM, id) # StateError)
              => Begins(id, "Initialize")]_vars

\* C20: once a plugin's recorded state is Stopped no Initialize or Shutdown
\* call changes it; in particular it never becomes Error.
C20_StoppedTerminal ==
    [][\A id \in PluginIDs :
          GetState(LM, id) = StateStopped
              => GetState(NextLM, id) = StateStopped]_vars

\* The place of a state in the order Uninitialized, Initializing, Ready,
\* ShuttingDown, Stopped; Error has none.
Rank(state) ==
    CASE state = StateUninitialized -> 0
      [] state = StateInitializing -> 1
      [] state = StateReady -> 2
      [] state = StateShuttingDown -> 3
      [] state = StateStopped -> 4
      [] OTHER -> -1

\* C21: every change of a plugin's state between two states other than
\* Error moves forward in the order Uninitialized, Initializing, Ready,
\* ShuttingDown, Stopped: never backwards and never past Ready without
\* taking it.
C21_MonotonicExceptError ==
    [][\A id \in PluginIDs :
          \A old \in {GetState(LM, id)} : \A new \in {GetState(NextLM, id)} :
              (old # new /\ old # StateError /\ new # StateError) =>
                  /\ Rank(new) > Rank(old)
                  /\ ~(Rank(old) < Rank(StateReady)
                         /\ Rank(StateReady) < Rank(new))]_vars

\* C22: when the context given to ManagedPlugin.Initialize is cancelled
\* before or during initialization, the plugin's state is Error when
\* Initialize returns, and was never Ready during the call.
C22_CancelledInitializeIsError ==
    \A id \in PluginIDs :
        (Completed(id, "Initialize") /\ mp[id].cancelled) =>
            /\ GetState(LM, id) = StateError
            /\ \A i \in 1..Len(LastCall(log[id])) :
                   LastCall(log[id])[i] # StateSet(StateReady)

\* The entries GetHealthChecks returned are those of the manager lm.
SnapshotOf(lm) ==
    /\ Len(hc.checks) = Cardinality(DOMAIN lm.states)
    /\ \A id \in DOMAIN lm.states :
           \E i \in 1..Len(hc.checks) : hc.checks[i] = HealthCheck(lm, id)

\* C23: every GetHealthChecks result is a point-in-time snapshot: its
\* entries are the manager's states and errors at one single instant of
\* the call, and each entry's state and error were written together (an
\* error is reported exactly for a plugin in Error).
C23_HealthChecksSnapshot ==
    hc.pc = "done" =>
        /\ \E lm \in hc.seen : SnapshotOf(lm)
        /\ \A i \in 1..Len(hc.checks) :
               /\ hc.checks[i].State = StateError
                      <=> hc.checks[i].Error # ErrorText(NoError)
               /\ hc.checks[i].Healthy <=> hc.checks[i].State = StateReady

C23_Witness ==
    /\ hc.pc = "done"
    /\ Len(hc.checks) = 2
    /\ \E i \in 1..2 : hc.checks[i].State = StateError
    /\ \E i \in 1..2 : hc.checks[i].State = StateInitializing
    /\ mp["oauth2"].pc # "idle"
    /\ mp["oidc"].pc = "idle"

\* The error codes a token response may carry.
Taxonomy ==
    {"invalid_request", "invalid_client", "unauthorized_client",
     "invalid_grant", "unsupported_grant_type", "server_error"}

\* The response is an error response with one code of the taxonomy.
IsErrorResponse(resp) == resp.status # 200 /\ resp.error \in Taxonomy

\* The grant the worker is about to issue tokens for takes the step that
\* fail names: both plugins sign an access and a refresh token, and the
\* oidc plugin signs an ID token when the scope has openid.
TakesStep(w, fail) ==
    \/ fail \in {"access", "refresh"}
    \/ /\ fail = "id"
       /\ wk[w].plugin = "oidc"
       /\ HasOpenID(SplitScope(IF wk[w].op = "authorization_code"
                               THEN wk[w].grant.Scope ELSE wk[w].scope))

\* C24: no token-endpoint operation swallows an error: a grant whose
\* validation fails, and a grant one of whose signing steps fails, ends
\* with an error response carrying one code of the taxonomy, never with a
\* success response.
C24_NoSwallowedError ==
    [][/\ \A op \in {"authorization_code", "refresh_token"} :
             (Starts(1, op) /\ wk'[1].pc = "done") => IsErrorResponse(wk'[1].resp)
       /\ \A fail \in SignFailures \ {"none"} :
             (/\ wk[1].pc = "issue"
              /\ TakesStep(1, fail)
              /\ wk'[1].pc = "done"
              /\ wk'[1].resp = IssueOutcome(1, fail).resp
              /\ refreshTokens' = IssueOutcome(1, fail).tokens)
                 => IsErrorResponse(wk'[1].resp)]_vars

GrantTypes == {"authorization_code", "refresh_token", "client_credentials"}

\* The token request the step serves is accepted: tokens are about to be
\* issued, or were.
Accepts(w) ==
    \/ wk'[w].pc = "issue"
    \/ wk'[w].pc = "done" /\ wk'[w].resp.status = 200

\* C25: the token endpoint issues tokens under a grant type only to a
\* client whose allowed grant types include it; a request by a registered,
\* authenticated client not registered for the grant type is answered with
\* unauthorized_client and issues nothing.
C25_GrantTypeAllowed ==
    [][\A g \in GrantTypes : Starts(1, g) =>
          \A c \in {TokenClientID(wk'[1].req)} :
              /\ Accepts(1) => (ClientExists(c) /\ g \in Clients[c].GrantTypes)
              /\ (/\ ClientExists(c)
                  /\ ValidateClient(c, TokenClientSecret(wk'[1].req))
                  /\ g \notin Clients[c].GrantTypes)
                     => /\ wk'[1].pc = "done"
                        /\ wk'[1].resp.error = "unauthorized_client"
                        /\ refreshTokens' = refreshTokens]_vars

\* The step created exactly one code, bound to what req submitted for the
\* user the credentials authenticate, and answered with a 302 to the
\* redirect URI carrying that code and the state.
CodeCreatedFor(req) ==
    /\ Len(authCodes') = Len(authCodes) + 1
    /\ SubSeq(authCodes', 1, Len(authCodes)) = authCodes
    /\ \E ac \in {authCodes'[Len(authCodes')]} :
           /\ ac.ClientID = req.clientID
           /\ ac.UserID = Users[req.email].ID
           /\ ac.RedirectURI = req.redirectURI
           /\ ac.Scope = req.scope
           /\ ac.Nonce = req.nonce
           /\ ac.CodeChallenge = req.codeChallenge
           /\ ac.CodeChallengeMethod = req.codeChallengeMethod
           /\ ~ac.Used
           /\ wk'[1].resp.status = 302
           /\ wk'[1].resp.location = req.redirectURI
           /\ wk'[1].resp.code = ac.Code
           /\ wk'[1].resp.state = req.state

\* CreateAuthorizationCode returned an error in the step: nothing was
\* stored and the answer is server_error, 400 with the state echoed when
\* not empty at the OAuth2 plugin, 500 without it at the OIDC plugin.
CreateFailed(p, req) ==
    /\ authCodes' = authCodes
    /\ wk'[1].resp =
           IF p = "oidc"
           THEN ErrorResponse(500, "server_error",
                              "Failed to create authorization code", "")
           ELSE ErrorResponse(400, "server_error",
                              "Failed to create authorization code", req.state)

\* C26: at login submission a code is created only after ValidateCredentials
\* succeeded; with valid credentials exactly one code is created, bound to
\* the submitted values, and the response is a 302 to redirect_uri with the
\* code and the state; with invalid credentials no code is created and the
\* login form is rendered again. The statement is read for the submissions
\* that get as far as the credentials (the OIDC plugin first refuses an
\* unregistered redirect_uri with 400 invalid_request and no code) and for
\* a CreateAuthorizationCode that may fail with server_error and no code.
C26_CodeAfterCredentials ==
    [][\A p \in Plugins : Submits(p) =>
          \A req \in {wk'[1].req} :
              /\ authCodes' # authCodes =>
                     ValidateCredentials(req.email, req.password)
              /\ ~ValidateCredentials(req.email, req.password) =>
                     authCodes' = authCodes /\ wk'[1].resp.status # 302
              /\ IF p = "oidc" /\ ~ValidateRedirectURI(req.clientID, req.redirectURI)
                 THEN /\ authCodes' = authCodes
                      /\ wk'[1].resp.status = 400
                      /\ wk'[1].resp.error = "invalid_request"
                 ELSE IF ~ValidateCredentials(req.email, req.password)
                      THEN authCodes' = authCodes /\ wk'[1].resp = LoginPage
                 ELSE CreateFailed(p, req) \/ CodeCreatedFor(req)]_vars

ProfileKeys == {"name", "preferred_username", "updated_at"}
EmailKeys == {"email", "email_verified"}
RolesKeys == {"roles"}

\* What the standard claim k of the user is.
StandardClaim(user, k) ==
    CASE k = "sub" -> Str(user.ID)
      [] k = "name" -> Str(user.Name)
      [] k = "preferred_username" -> Str(user.ID)
      [] k = "updated_at" -> Num(user.CreatedAt)
      [] k = "email" -> Str(user.Email)
      [] k = "email_verified" -> Bool(TRUE)
      [] k = "roles" -> List(user.Roles)

\* The scopes given, as a set.
Given(scopes) == {scopes[i] : i \in 1..Len(scopes)}

\* C27: for every existing user and list of scopes, UserClaims returns a
\* map that always has sub; apart from the keys the user's custom claims
\* define, it has name, preferred_username and updated_at iff profile is
\* among the scopes, email and email_verified = true iff email is, roles
\* iff roles is, and nothing for any other scope; every key the custom
\* claims define is present with the custom value.
C27_UserClaimsByScope ==
    (uc.done /\ uc.user \in DOMAIN ClaimUsers) =>
        \A user \in {ClaimUsers[uc.user]} :
            /\ ~uc.nil
            /\ "sub" \in DOMAIN uc.claims
            /\ \A k \in DOMAIN user.Claims :
                   k \in DOMAIN uc.claims /\ uc.claims[k] = user.Claims[k]
            /\ \A k \in (DOMAIN uc.claims \cup {"sub"} \cup ProfileKeys
                          \cup EmailKeys \cup RolesKeys) \ DOMAIN user.Claims :
                   /\ k \in DOMAIN uc.claims <=>
                          \/ k = "sub"
                          \/ k \in ProfileKeys /\ "profile" \in Given(uc.scopes)
                          \/ k \in EmailKeys /\ "email" \in Given(uc.scopes)
                          \/ k \in RolesKeys /\ "roles" \in Given(uc.scopes)
                   /\ k \in DOMAIN uc.claims =>
                          uc.claims[k] = StandardClaim(user, k)

C27_Witness ==
    /\ uc.done
    /\ uc.user = "admin"
    /\ uc.scopes = << "email", "profile" >>
    /\ uc.claims["name"] = Str("Root")
    /\ uc.claims["email_verified"] = Bool(FALSE)
    /\ uc.claims["preferred_username"] = Str("admin")
    /\ DOMAIN uc.claims = {"sub"} \cup ProfileKeys \cup EmailKeys

\* C28: the OAuth2 authorization endpoint (GET) renders the login form only
\* when response_type is code, client_id names a registered client and
\* redirect_uri passes ValidateRedirectURI for it; otherwise it returns one
\* error: unsupported_response_type when response_type is not code, else
\* invalid_request when client_id is empty, else invalid_client when the
\* client is unknown, else invalid_request for a bad redirect_uri; it never
\* creates an authorization code or issues a redirect.
C28_AuthorizeGetValidation ==
    [][Starts(1, "authorize_get") =>
          \A req \in {wk'[1].req} : \A resp \in {wk'[1].resp} :
              /\ authCodes' = authCodes
              /\ resp.status # 302
              /\ resp = LoginPage <=>
                     /\ req.responseType = "code"
                     /\ ClientExists(req.clientID)
                     /\ ValidateRedirectURI(req.clientID, req.redirectURI)
              /\ resp # LoginPage =>
                     /\ resp.status = 400
                     /\ resp.error =
                            IF req.responseType # "code"
                            THEN "unsupported_response_type"
                            ELSE IF req.clientID = "" THEN "invalid_request"
                            ELSE IF ~ClientExists(req.clientID) THEN "invalid_client"
                            ELSE "invalid_request"]_vars

C28_Witness ==
    /\ wk[1].pc = "done" /\ wk[1].op = "authorize_get"
    /\ wk[1].req.responseType = "token"
    /\ wk[1].req.clientID = ""
    /\ wk[1].resp.error = "unsupported_response_type"
    /\ Len(authCodes) = 1

\* C29: AllReady() is true if and only if every registered plugin is in
\* state Ready as reported by GetState; a plugin on which no lifecycle
\* operation has run yet (GetState = Uninitialized) makes AllReady false.
C29_AllReadyIffEveryPluginReady ==
    AllReady(LM) <=> \A id \in PluginIDs : GetState(LM, id) = StateReady

\* C30: after any sequence of Publish calls, including while a subscriber
\* is slow, the event bus retains at most N events, and they are the N most
\* recently published ones in publication order: the oldest retained event
\* is the one evicted when a Publish would exceed N.
C30_BoundedRetention ==
    /\ Len(bus.events) <= Retention
    /\ bus.events = LastN(bus.history, Retention)
    /\ \A i \in 1..Len(bus.events) :
           bus.events[i].id = Len(bus.history) - Len(bus.events) + i

C30_Witness ==
    /\ Len(bus.history) > Retention + 1
    /\ Len(bus.events) = Retention
    /\ bus.events[1].id = Len(bus.history) - Retention + 1
    /\ \E s \in Subscribers :
           /\ bus.subs[s].active
           /\ Len(bus.subs[s].queue) = QueueSize
           /\ bus.subs[s].queue[1].id < bus.events[1].id

\* The Callback effect sends a token request in this step.
SendsTokenRequest ==
    /\ fe'.fetch.pending
    /\ fe'.fetch # fe.fetch \/ fe'.url # fe.url

\* C31: the Callback page exchanges a received authorization code for
\* tokens only when the state returned in the callback URL equals the state
\* stored before the redirect; a callback with a missing or different state
\* never triggers a token request.
C31_CallbackChecksState ==
    [][SendsTokenRequest =>
          /\ fe'.url.state.has
          /\ StrictEquals(fe.storage.oauth_state, fe'.url.state.v)]_vars

\* A validateState(s) call takes this step.
ValidateStep(s) ==
    /\ fe' # fe
    /\ fe'.validated.called
    /\ fe'.validated.received = s
    /\ fe'.storage.pkce_verifier = fe.storage.pkce_verifier
    /\ fe'.storage.oauth_flow_type = fe.storage.oauth_flow_type
    /\ fe'.storage.oidc_nonce = fe.storage.oidc_nonce
    /\ fe'.returned = fe.returned
    /\ fe'.url = fe.url /\ fe'.fetch = fe.fetch /\ fe'.page = fe.page

\* C33: validateState(s) returns true iff a state equal to s is stored and
\* was not consumed since; every call, matching or not, clears the stored
\* state; so after one storeState at most one validateState call returns
\* true.
C33_ValidateStateSingleUse ==
    /\ [](fe.trues <= 1)
    /\ [][\A s \in States :
             ValidateStep(s) =>
                 /\ fe'.validated.result <=>
                        (fe.storage.oauth_state.has /\ fe.storage.oauth_state.v = s)
                 /\ ~fe'.storage.oauth_state.has]_vars

C33_Witness ==
    /\ fe.trues = 1
    /\ fe.validated.called /\ ~fe.validated.result
    /\ fe.validated.received = "s1"
    /\ ~fe.storage.oauth_state.has
    /\ fe.storage.pkce_verifier.has

\* C32: validatePKCE dispatches on the method: with "plain" it is true iff
\* the verifier is non-empty and equals the challenge; with an empty or an
\* unrecognised method it behaves exactly like "S256", so a verifier equal
\* to the challenge does not pass; an empty verifier is rejected under
\* every method, even when the challenge is empty too.
C32_ValidatePKCEDispatch ==
    pk.result \in {"valid", "invalid"} =>
        /\ pk.method = "plain" =>
               (pk.result = "valid" <=>
                   (pk.verifier # << >> /\ pk.verifier = pk.challenge))
        /\ pk.method # "plain" =>
               /\ pk.result = "valid" <=>
                      (pk.verifier # << >>
                         /\ CodeChallengeS256(pk.verifier) = pk.challenge)
               /\ (pk.verifier = pk.challenge) => pk.result = "invalid"
        /\ pk.verifier = << >> => pk.result = "invalid"

C32_Witness ==
    /\ pk.result = "invalid"
    /\ pk.method = "s256"
    /\ pk.verifier = Verifier1
    /\ pk.challenge = Verifier1
    /\ ~pk.generated

\* The request that presents stored code c as its own client would.
OwnRedemption(codes, c) ==
    CodeRequest(Form(codes[c].ClientID, Clients[codes[c].ClientID].Secret),
                c, codes[c].RedirectURI, NoVerifier)

\* C34: client authentication precedes grant validation at both token
\* endpoints: an authorization_code request whose client is unknown, or
\* whose non-public client fails secret validation, is answered
\* invalid_client without the code being validated, so the presented code
\* stays unconsumed and a later correct request can still redeem it.
C34_ClientAuthBeforeCode ==
    [][\A p \in Plugins :
          (Starts(1, "authorization_code") /\ wk'[1].plugin = p
             /\ ClientAuthFails(TokenClientID(wk'[1].req),
                                TokenClientSecret(wk'[1].req)))
          => /\ wk'[1].pc = "done"
             /\ wk'[1].resp.error = "invalid_client"
             /\ authCodes' = authCodes
             /\ \A c \in 1..Len(authCodes) :
                    AuthorizationCodeGrant(p, authCodes', now',
                                           OwnRedemption(authCodes, c)).pc
                    = AuthorizationCodeGrant(p, authCodes, now,
                                             OwnRedemption(authCodes, c)).pc]_vars

C34_Witness ==
    /\ wk[1].pc = "done" /\ wk[1].op = "authorization_code"
    /\ wk[1].plugin = "oidc"
    /\ wk[1].resp.error = "invalid_client"
    /\ wk[1].req = CodeRequest(Form("demo-app", "wrong-secret"), 1, AppCallback,
                               NoVerifier)
    /\ Len(authCodes) = 1
    /\ authCodes[1].ClientID = "demo-app"
    /\ ~authCodes[1].Used
    /\ AuthorizationCodeGrant("oidc", authCodes, now,
                              OwnRedemption(authCodes, 1)).pc = "issue"

\* Worker 1 finishes issuing tokens in this step.
Issues == wk[1].pc = "issue" /\ wk'[1].pc = "done"

\* C35: token issuance is all-or-nothing with respect to the refresh-token
\* store: whenever a token request (authorization_code or refresh_token
\* grant, OAuth2 or OIDC) is answered server_error because signing an
\* access, refresh or ID token failed, that request stored no new refresh
\* token.
C35_IssuanceAllOrNothing ==
    [][(Issues /\ wk'[1].resp.error = "server_error") =>
           refreshTokens' = refreshTokens]_vars

\* The elements of a scope.
ScopeElements(scope) == { scope[i] : i \in 1..Len(scope) }

\* C36: a refresh_token grant never widens scope: the scope of the access,
\* refresh and ID tokens it issues has no element that is absent from the
\* stored scope of the redeemed refresh token, and when the request names no
\* scope the issued scope equals the stored scope.
C36_RefreshNeverWidensScope ==
    [][(Issues /\ wk[1].op = "refresh_token" /\ wk'[1].resp.status = 200) =>
           /\ ScopeElements(wk'[1].resp.scope) \subseteq ScopeElements(wk[1].grant.Scope)
           /\ ScopeElements(wk'[1].resp.accessToken.scope)
                  \subseteq ScopeElements(wk[1].grant.Scope)
           /\ ScopeElements(wk'[1].resp.refreshToken.scope)
                  \subseteq ScopeElements(wk[1].grant.Scope)
           /\ wk'[1].resp.idToken # NoToken =>
                  HasOpenID(SplitScope(wk[1].grant.Scope))
           /\ wk[1].req.scope = << >> => wk'[1].resp.scope = wk[1].grant.Scope]_vars

\* C37: the revocation endpoint revokes a refresh token only on behalf of
\* the client the token is bound to: a revocation request authenticated as
\* client B that presents a refresh token stored for client A leaves that
\* token valid for client A.
C37_RevokeOnlyOwnTokens ==
    [][Starts(1, "revoke") =>
          \A i \in 1..Len(refreshTokens) :
              refreshTokens[i].ClientID # HeaderClientID(wk'[1].req) =>
                  /\ refreshTokens'[i] = refreshTokens[i]
                  /\ RefreshTokenError(refreshTokens', now', refreshTokens[i].Token,
                                       refreshTokens[i].ClientID)
                     = RefreshTokenError(refreshTokens, now, refreshTokens[i].Token,
                                         refreshTokens[i].ClientID)]_vars

\* C38: in every reachable state of the LifecycleManager a plugin with a
\* non-nil recorded error is in state Error, so a health-check entry with
\* Healthy true carries no error text, and a successful Initialize after a
\* failure leaves GetError nil.
C38_ErrorOnlyInStateError ==
    /\ \A id \in PluginIDs :
           /\ GetError(LM, id) # NoError => GetState(LM, id) = StateError
           /\ (Completed(id, "Initialize") /\ mp[id].ret = NoError) =>
                  GetError(LM, id) = NoError
    /\ \A i \in 1..Len(hc.checks) :
           hc.checks[i].Healthy => hc.checks[i].Error = ErrorText(NoError)

C38_Witness ==
    /\ Completed("oauth2", "Initialize")
    /\ CallsIn(log["oauth2"]) = << "Initialize", "Initialize" >>
    /\ Len(ReturnsIn(log["oauth2"])) = 2
    /\ ReturnsIn(log["oauth2"])[1] # NoError
    /\ ReturnsIn(log["oauth2"])[2] = NoError
    /\ GetError(LM, "oauth2") = NoError
    /\ hc.pc = "done"
    /\ \E i \in 1..Len(hc.checks) :
           hc.checks[i].PluginID = "oauth2" /\ hc.checks[i].Healthy

\* Every goroutine has made its call, and every call has returned.
AllReturned == \A g \in Goroutines : cc.call[g].pc = "returned"

\* The plugin's operation that returned last.
LastCompleted == cc.completed[Len(cc.completed)]

\* C39: under concurrent Initialize and Shutdown calls on the same plugin,
\* for every interleaving, once all calls have returned the recorded state
\* is Ready only if the last underlying operation to complete was a
\* successful plugin Initialize, and Stopped only if it was a successful
\* plugin Shutdown.
C39_StateMatchesLastOperation ==
    AllReturned =>
        /\ GetState(LM, SharedPlugin) = StateReady =>
               LastCompleted = [op |-> "Initialize", err |-> NoError]
        /\ GetState(LM, SharedPlugin) = StateStopped =>
               LastCompleted = [op |-> "Shutdown", err |-> NoError]

\* C40: the OnError hook is invoked exactly once per ManagedPlugin.Initialize
\* call in which the plugin's own Initialize returned an error, after the
\* state was set to Error, and is never invoked otherwise: not when the
\* pre-init hook fails, and not when Shutdown or the pre-shutdown hook
\* fails.
C40_OnErrorOnlyForPluginInitialize ==
    \A id \in PluginIDs : log[id] # << >> =>
        \A seg \in {LastCall(log[id])} :
            /\ \A k \in 1..Len(seg) : seg[k].ev = "OnError" =>
                   /\ mp[id].op = "Initialize"
                   /\ "OnError" \in mp[id].hooks
                   /\ seg[k].err # NoError
                   /\ k > 2
                   /\ seg[k - 1] = StateSet(StateError)
                   /\ seg[k - 2] = Invoked("plugin.Initialize", seg[k].err)
                   /\ StateBefore(seg, k) = StateError
            /\ Invocations(seg, "OnError") <= 1
            /\ (mp[id].pc = "idle" /\ "OnError" \in mp[id].hooks
                  /\ Failed(seg, "plugin.Initialize", PluginError)) =>
                   Invocations(seg, "OnError") = 1

C40_Witness ==
    /\ mp["oauth2"].hooks = AllHooks
    /\ Completed("oauth2", "Initialize")
    /\ Failed(LastCall(log["oauth2"]), "plugin.Initialize", PluginError)
    /\ Invocations(LastCall(log["oauth2"]), "OnError") = 1
    /\ mp["oidc"].hooks = AllHooks
    /\ Completed("oidc", "Initialize")
    /\ Failed(LastCall(log["oidc"]), "OnInitialize", HookError)
    /\ Invocations(LastCall(log["oidc"]), "OnError") = 0


====
